---- MODULE Spec2Model ----
(***************************************************************************)
(* A model of the LLM-Mediated Complaint Intake System: the file-backed,   *)
(* indexed record store (storage.py), the lifecycle state machine          *)
(* (config.py), the classifier (classifier.py, utils.py), the intake       *)
(* conversation (conversation_handler.py) and the orchestrator             *)
(* (complaint_system.py).                                                  *)
(*                                                                         *)
(* Conventions.  Python str is a TLA+ string, Python None is the value     *)
(* None below, a Python list is a sequence, a Python dict is a function    *)
(* from its keys, a float confidence is an integer number of hundredths.   *)
(* The wall clock behind format_timestamp() is the logical clock `now`.    *)
(***************************************************************************)
EXTENDS Integers, Sequences, FiniteSets, TLC

\* ------------------------------------------------------------------ text

\* Python's None (json null on disk).
None == "<None>"

\* str(x) inside an f-string: None prints as the text None.
Str(x) == IF x = None THEN "None" ELSE x

Min(a, b) == IF a <= b THEN a ELSE b

Range(s) == {s[i] : i \in DOMAIN s}

RECURSIVE SumSeq(_)
SumSeq(s) == IF s = <<>> THEN 0 ELSE Head(s) + SumSeq(Tail(s))

RECURSIVE Flatten(_)
Flatten(ss) == IF ss = <<>> THEN <<>> ELSE Head(ss) \o Flatten(Tail(ss))

\* `p in t` on Python strings.
Contains(t, p) ==
    \E i \in 1..(Len(t) - Len(p) + 1) : SubSeq(t, i, i + Len(p) - 1) = p

\* t.count(p): occurrences found left to right, none overlapping another.
\* The scan jumps from one occurrence to the first one starting after its end.
RECURSIVE CountFrom(_, _, _)
CountFrom(t, p, i) ==
    LET at == {j \in i..(Len(t) - Len(p) + 1) : SubSeq(t, j, j + Len(p) - 1) = p}
    IN  IF at = {} THEN 0
        ELSE LET j == CHOOSE k \in at : \A m \in at : k <= m
             IN  1 + CountFrom(t, p, j + (IF Len(p) = 0 THEN 1 ELSE Len(p)))

Count(t, p) == CountFrom(t, p, 1)

UpperChars == "ABCDEFGHIJKLMNOPQRSTUVWXYZ"
LowerChars == "abcdefghijklmnopqrstuvwxyz"
DigitChars == "0123456789"

Chars(t) == {SubSeq(t, i, i) : i \in 1..Len(t)}

UpperSet == Chars(UpperChars)
DigitSet == Chars(DigitChars)

IsUpper(c) == c \in UpperSet
IsDigit(c) == c \in DigitSet

LowerChar(c) ==
    IF IsUpper(c)
    THEN LET i == CHOOSE k \in 1..26 : SubSeq(UpperChars, k, k) = c
         IN  SubSeq(LowerChars, i, i)
    ELSE c

\* The concatenation of the strings f[lo], ..., f[hi].
RECURSIVE ConcatRange(_, _, _)
ConcatRange(f, lo, hi) ==
    IF lo > hi THEN ""
    ELSE IF lo = hi THEN f[lo]
    ELSE LET mid == (lo + hi) \div 2
         IN  ConcatRange(f, lo, mid) \o ConcatRange(f, mid + 1, hi)

\* str.lower()
Lower(t) ==
    ConcatRange([i \in 1..Len(t) |-> LowerChar(SubSeq(t, i, i))], 1, Len(t))

IsSpace(c) == c \in {" ", "\t", "\n", "\r"}

\* ' '.join(text.split()): runs of whitespace collapse to one blank, the ends
\* are stripped.  A character is kept when it is no whitespace, and is
\* preceded by one blank when it starts a word that is not the first.
JoinSplit(t) ==
    LET space(i) == IsSpace(SubSeq(t, i, i))
        piece(i) ==
            IF space(i) THEN ""
            ELSE IF i > 1 /\ space(i - 1) /\ \E j \in 1..(i - 1) : ~space(j)
                 THEN " " \o SubSeq(t, i, i)
                 ELSE SubSeq(t, i, i)
    IN  ConcatRange([i \in 1..Len(t) |-> piece(i)], 1, Len(t))

\* utils.sanitize_text
sanitize_text(text, max_length) ==
    LET truncate(t) ==
            IF Len(t) > max_length THEN SubSeq(t, 1, max_length - 3) \o "..."
            ELSE t
    IN  truncate(JoinSplit(text))

SANITIZE_MAX_LENGTH == 2000

\* ------------------------------------------------------- config.py tables

CategoryOrder ==
    <<"bug", "model_behavior", "ux_ui", "feature_request", "policy_friction",
      "performance", "trust_safety", "misunderstanding", "other">>

PRIMARY_CATEGORIES ==
    [bug |-> <<"crash", "freeze", "error", "broken", "not working", "failed">>,
     model_behavior |-> <<"ignored", "verbose", "wrong tone", "hallucination",
                          "repetition", "misunderstood", "constraint",
                          "overwrite", "replace">>,
     ux_ui |-> <<"confusing", "hidden", "can't find", "unclear",
                 "difficult to use">>,
     feature_request |-> <<"need", "want", "would be nice", "suggestion",
                           "could you add">>,
     policy_friction |-> <<"won't let me", "refused", "blocked", "not allowed",
                           "restricted">>,
     performance |-> <<"slow", "timeout", "lag", "taking forever",
                       "performance">>,
     trust_safety |-> <<"privacy", "security", "data", "unsafe", "concern">>,
     misunderstanding |-> <<"confused", "don't understand", "how do",
                            "what does">>,
     other |-> <<>>]

SeverityOrder == <<"critical", "high", "medium", "low">>

SEVERITY_INDICATORS ==
    [critical |-> <<"impossible", "can't work", "completely broken", "unusable",
                    "critical", "urgent", "emergency">>,
     high |-> <<"broken", "can't", "won't", "always", "never", "job", "work">>,
     medium |-> <<"difficult", "frustrating", "sometimes", "often", "annoying">>,
     low |-> <<"minor", "small", "slight", "occasionally">>]

RootCauseOrder ==
    <<"constraint_parsing_failure", "context_overload", "ambiguous_instructions",
      "model_overcorrection", "system_bug", "latency_issue", "ui_confusion",
      "policy_boundary", "hallucination", "data_absence">>

ROOT_CAUSE_PATTERNS ==
    [constraint_parsing_failure |-> <<"ignored constraint", "didn't follow",
                                      "overwrite", "replaced", "append">>,
     context_overload |-> <<"long conversation", "forgot", "earlier">>,
     ambiguous_instructions |-> <<"unclear", "confused", "not sure what">>,
     model_overcorrection |-> <<"too cautious", "overly", "excessive">>,
     system_bug |-> <<"crash", "error", "freeze", "failed">>,
     latency_issue |-> <<"slow", "timeout", "lag">>,
     ui_confusion |-> <<"couldn't find", "where is", "how do">>,
     policy_boundary |-> <<"won't let me", "refused", "blocked">>,
     hallucination |-> <<"made up", "incorrect", "wrong information",
                         "fabricated">>,
     data_absence |-> <<"don't know", "no information", "can't find">>]

MAX_CLARIFICATION_ROUNDS == 3

VALID_STATUS_TRANSITIONS ==
    [new |-> <<"triaged">>,
     triaged |-> <<"structured">>,
     structured |-> <<"clustered">>,
     clustered |-> <<"routed">>,
     routed |-> <<"in_progress">>,
     in_progress |-> <<"resolved", "awaiting_user">>,
     awaiting_user |-> <<"in_progress", "resolved">>,
     resolved |-> <<"closed">>,
     closed |-> <<"reopened">>,
     reopened |-> <<"triaged">>]

\* The lookup with closed as a terminal status: nothing is reopened.
valid_transitions_closed_is_final(old_status) ==
    IF old_status \in DOMAIN VALID_STATUS_TRANSITIONS /\ old_status # "closed"
    THEN VALID_STATUS_TRANSITIONS[old_status]
    ELSE <<>>

\* config.VALID_STATUS_TRANSITIONS.get(old_status, [])
valid_transitions(old_status) ==
    IF old_status \in DOMAIN VALID_STATUS_TRANSITIONS
    THEN VALID_STATUS_TRANSITIONS[old_status]
    ELSE <<>>

\* ------------------------------------------------- what reporters say

\* What a reporter says (quick_file_complaint's arguments).
Reports ==
    {[user_summary |-> "AI kept replacing my text instead of appending",
      user_intent |-> "Append new paragraphs to existing document",
      observed_outcome |-> "AI overwrote entire sections",
      expected_outcome |-> "Only new content should be added",
      frequency |-> "persistent"],
     [user_summary |-> "System crashed when uploading large file",
      user_intent |-> "Upload a 500MB video file",
      observed_outcome |-> "Browser froze and crashed",
      expected_outcome |-> "File should upload with progress indicator",
      frequency |-> "once"]}

\* What a reporter types in the intake conversation.
IntakeMessages == {"I want to  report a bug: export is broken"}
IntakeAnswers == {"Export the report as PDF", ""}

\* What the records handed to save() directly say.
SampleReport ==
    [user_summary |-> "Export fails", frequency |-> "once",
     user_intent |-> "Export the report as PDF",
     observed_outcome |-> "The export crashed with an error",
     expected_outcome |-> "A PDF file"]

\* ---------------------------------------------------------- classifier.py

\* classify_category: the score of every category, in table order: the
\* occurrences of each of its keywords, added up, and the two special cases.
category_scores(full_text) ==
    LET base(keywords) ==
            SumSeq([k \in DOMAIN keywords |->
                        Count(full_text, Lower(keywords[k]))])
        constraint_bonus ==
            IF \E w \in {"append", "replace", "overwrite", "constraint"} :
                    Contains(full_text, w)
            THEN 5 ELSE 0
        feature_bonus ==
            IF \E w \in {"dark mode", "feature", "add", "need", "want"} :
                    Contains(full_text, w)
            THEN 3 ELSE 0
    IN  [bug |-> base(PRIMARY_CATEGORIES.bug),
         model_behavior |->
            base(PRIMARY_CATEGORIES.model_behavior) + constraint_bonus,
         ux_ui |-> base(PRIMARY_CATEGORIES.ux_ui),
         feature_request |->
            base(PRIMARY_CATEGORIES.feature_request) + feature_bonus,
         policy_friction |-> base(PRIMARY_CATEGORIES.policy_friction),
         performance |-> base(PRIMARY_CATEGORIES.performance),
         trust_safety |-> base(PRIMARY_CATEGORIES.trust_safety),
         misunderstanding |-> base(PRIMARY_CATEGORIES.misunderstanding),
         other |-> base(PRIMARY_CATEGORIES.other)]

\* The last key, in insertion order, holding the maximum.
last_max(scores) ==
    CategoryOrder[CHOOSE k \in DOMAIN CategoryOrder :
        /\ \A j \in DOMAIN CategoryOrder :
                scores[CategoryOrder[j]] <= scores[CategoryOrder[k]]
        /\ \A j \in (k + 1)..Len(CategoryOrder) :
                scores[CategoryOrder[j]] # scores[CategoryOrder[k]]]

\* max(d, key=d.get): the first key, in insertion order, holding the maximum.
first_max(scores) ==
    LET first_with(m) ==
            CategoryOrder[CHOOSE k \in DOMAIN CategoryOrder :
                            /\ scores[CategoryOrder[k]] = m
                            /\ \A j \in 1..(k - 1) : scores[CategoryOrder[j]] # m]
    IN  first_with(CHOOSE v \in Range(scores) : \A w \in Range(scores) : w <= v)

\* The primary category is "other" when every score is 0; the secondary ones
\* are those with a positive score, the primary aside, at most five.
classify_category(complaint_text, user_intent, observed_outcome) ==
    LET first_five(l) == SubSeq(l, 1, Min(5, Len(l)))
        categories_of(scores, primary) ==
            [primary |-> primary,
             secondary |->
                first_five(SelectSeq(CategoryOrder,
                                     LAMBDA c : scores[c] > 0 /\ c # primary))]
        pick_categories(scores) ==
            categories_of(scores,
                          IF \A c \in DOMAIN scores : scores[c] <= 0
                          THEN "other" ELSE first_max(scores))
    IN  pick_categories(category_scores(
            Lower(complaint_text \o " " \o user_intent \o " "
                  \o observed_outcome)))

severity_text(d) ==
    Lower(Str(d.user_summary) \o " " \o Str(d.user_intent) \o " "
          \o Str(d.observed_outcome))

\* The tier weights with the low tier counting one point.
tier_weight_low_counts(severity_level) ==
    CASE severity_level = "critical" -> 3
      [] severity_level = "high" -> 2
      [] OTHER -> 1

tier_weight(severity_level) ==
    CASE severity_level = "critical" -> 3
      [] severity_level = "high" -> 2
      [] severity_level = "medium" -> 1
      [] OTHER -> 0

\* The keywords of every tier found in the text, in iteration order, each
\* with its tier.
indicator_hits(text) ==
    Flatten([i \in DOMAIN SeverityOrder |->
        LET lvl == SeverityOrder[i]
            kws == SEVERITY_INDICATORS[lvl]
            found == SelectSeq(kws, LAMBDA k : Contains(text, k))
        IN  [j \in DOMAIN found |-> [level |-> lvl, keyword |-> found[j]]]])

\* `any(word in text for word in ["job", "work", "business", "project"])`
impacts_work(text) ==
    \E w \in {"job", "work", "business", "project"} : Contains(text, w)

\* The score of calculate_severity, from its text and the indicators in it.
severity_score(d, text, hits) ==
    SumSeq([i \in DOMAIN hits |-> tier_weight(hits[i].level)])
    + (CASE d.frequency = "persistent" -> 2
         [] d.frequency = "intermittent" -> 1
         [] OTHER -> 0)
    + (IF impacts_work(text) THEN 1 ELSE 0)
    + (IF d.primary_category \in {"bug", "trust_safety"} THEN 1 ELSE 0)

\* The thresholds of calculate_severity taken as strict.
severity_of_score_strict(score) ==
    IF score > 4 THEN "critical"
    ELSE IF score > 3 THEN "high"
    ELSE IF score > 1 THEN "medium"
    ELSE "low"

severity_of_score(score) ==
    IF score >= 4 THEN "critical"
    ELSE IF score >= 3 THEN "high"
    ELSE IF score >= 1 THEN "medium"
    ELSE "low"

\* The basis list of calculate_severity left as the rules made it, empty when
\* none added an entry.
severity_basis_without_default(d, text, hits) ==
    [i \in DOMAIN hits |-> "Contains '" \o hits[i].keyword \o "' indicator"]
    \o (CASE d.frequency = "persistent" -> <<"Recurring issue (persistent)">>
          [] d.frequency = "intermittent" -> <<"Recurring issue (intermittent)">>
          [] OTHER -> <<>>)
    \o (IF impacts_work(text) THEN <<"Impacts work/productivity">> ELSE <<>>)
    \o (IF d.primary_category \in {"bug", "trust_safety"}
        THEN <<"Category: " \o d.primary_category \o " (elevated priority)">>
        ELSE <<>>)

\* The basis list of calculate_severity, with its default when it is empty.
severity_basis(d, text, hits) ==
    LET or_default(basis) ==
            IF basis = <<>>
            THEN <<"Default severity based on available information">>
            ELSE basis
    IN  or_default(
            [i \in DOMAIN hits |->
                "Contains '" \o hits[i].keyword \o "' indicator"]
            \o (CASE d.frequency = "persistent" ->
                        <<"Recurring issue (persistent)">>
                  [] d.frequency = "intermittent" ->
                        <<"Recurring issue (intermittent)">>
                  [] OTHER -> <<>>)
            \o (IF impacts_work(text) THEN <<"Impacts work/productivity">>
                ELSE <<>>)
            \o (IF d.primary_category \in {"bug", "trust_safety"}
                THEN <<"Category: " \o d.primary_category
                       \o " (elevated priority)">>
                ELSE <<>>))

calculate_severity(d) ==
    LET from_hits(text, hits) ==
            [severity |-> severity_of_score(severity_score(d, text, hits)),
             basis |-> severity_basis(d, text, hits)]
        from_text(text) == from_hits(text, indicator_hits(text))
    IN  from_text(severity_text(d))

\* identify_root_causes without the break: a cause is added once for each of
\* its patterns found.
identify_root_causes_per_pattern(d) ==
    LET text == Lower(Str(d.user_summary) \o " " \o Str(d.user_intent) \o " "
                      \o Str(d.observed_outcome) \o " " \o Str(d.context))
        causes ==
            Flatten([i \in DOMAIN RootCauseOrder |->
                LET found == SelectSeq(ROOT_CAUSE_PATTERNS[RootCauseOrder[i]],
                                       LAMBDA pattern : Contains(text, Lower(pattern)))
                IN  [j \in DOMAIN found |-> RootCauseOrder[i]]])
    IN  IF causes = <<>> THEN <<"unknown">> ELSE causes

identify_root_causes(d) ==
    LET or_unknown(causes) == IF causes = <<>> THEN <<"unknown">> ELSE causes
        causes_in(text) ==
            SelectSeq(RootCauseOrder,
                LAMBDA c : \E k \in DOMAIN ROOT_CAUSE_PATTERNS[c] :
                              Contains(text, Lower(ROOT_CAUSE_PATTERNS[c][k])))
    IN  or_unknown(causes_in(
            Lower(Str(d.user_summary) \o " " \o Str(d.user_intent) \o " "
                  \o Str(d.observed_outcome) \o " " \o Str(d.context))))

\* suggest_routing with the feature-request rule moved to the front.
suggest_routing_backlog_first(d) ==
    IF d.primary_category = "feature_request" THEN "product_backlog"
    ELSE IF d.severity = "critical" THEN "human_review"
    ELSE IF d.primary_category = "trust_safety" /\ d.severity = "high"
    THEN "safety_escalation"
    ELSE IF d.primary_category = "bug" /\ d.severity = "high"
    THEN "human_review"
    ELSE IF d.primary_category = "model_behavior" THEN "self_correction"
    ELSE IF d.primary_category = "misunderstanding" /\ d.frequency = "persistent"
    THEN "documentation_update"
    ELSE "human_review"

\* suggest_routing with the constraint rule of model_behavior moved to the
\* front.
suggest_routing_self_correction_first(d) ==
    IF d.primary_category = "model_behavior"
       /\ "constraint_parsing_failure" \in Range(d.probable_root_causes)
    THEN "self_correction"
    ELSE IF d.severity = "critical" THEN "human_review"
    ELSE IF d.primary_category = "trust_safety" /\ d.severity = "high"
    THEN "safety_escalation"
    ELSE IF d.primary_category = "feature_request" THEN "product_backlog"
    ELSE IF d.primary_category = "misunderstanding" /\ d.frequency = "persistent"
    THEN "documentation_update"
    ELSE IF d.primary_category = "model_behavior" THEN "self_correction"
    ELSE "human_review"

\* suggest_routing with the trust and safety rule moved before the rule for
\* critical severity.
suggest_routing_safety_first(d) ==
    IF d.primary_category = "trust_safety" /\ d.severity \in {"high", "critical"}
    THEN "safety_escalation"
    ELSE IF d.severity = "critical" THEN "human_review"
    ELSE IF d.primary_category = "bug" /\ d.severity = "high"
    THEN "human_review"
    ELSE IF d.primary_category = "model_behavior"
            /\ "constraint_parsing_failure" \in Range(d.probable_root_causes)
    THEN "self_correction"
    ELSE IF d.primary_category = "feature_request" THEN "product_backlog"
    ELSE IF d.primary_category = "misunderstanding" /\ d.frequency = "persistent"
    THEN "documentation_update"
    ELSE IF d.primary_category = "model_behavior" THEN "self_correction"
    ELSE "human_review"

suggest_routing(d) ==
    LET routing_for(severity, primary_cat, root_causes, frequency) ==
            IF severity = "critical" THEN "human_review"
            ELSE IF primary_cat = "trust_safety"
                    /\ severity \in {"high", "critical"}
            THEN "safety_escalation"
            ELSE IF primary_cat = "bug" /\ severity \in {"high", "critical"}
            THEN "human_review"
            ELSE IF primary_cat = "model_behavior"
                    /\ "constraint_parsing_failure" \in root_causes
            THEN "self_correction"
            ELSE IF primary_cat = "feature_request" THEN "product_backlog"
            ELSE IF primary_cat = "misunderstanding" /\ frequency = "persistent"
            THEN "documentation_update"
            ELSE IF primary_cat = "performance"
                    /\ severity \in {"high", "critical"}
            THEN "human_review"
            ELSE IF primary_cat = "model_behavior" THEN "self_correction"
            ELSE "human_review"
    IN  routing_for(d.severity, d.primary_category,
                    Range(d.probable_root_causes), d.frequency)

RECURSIVE JoinWith(_, _)
JoinWith(ss, sep) ==
    IF ss = <<>> THEN ""
    ELSE IF Len(ss) = 1 THEN ss[1]
    ELSE ss[1] \o sep \o JoinWith(Tail(ss), sep)

suggest_fix(d) ==
    LET suggestions_for(primary_cat, root_causes) ==
            CASE primary_cat = "model_behavior" ->
                    (IF "constraint_parsing_failure" \in root_causes
                     THEN <<"Increase constraint adherence monitoring",
                            "Add explicit constraint verification step">>
                     ELSE <<>>)
                    \o (IF "context_overload" \in root_causes
                        THEN <<"Implement conversation summarization",
                               "Reduce context window usage">>
                        ELSE <<>>)
              [] primary_cat = "bug" ->
                    <<"Investigate technical root cause",
                      "Review error logs and stack traces">>
              [] primary_cat = "ux_ui" ->
                    <<"Review UI/UX design for clarity",
                      "Add user guidance or tooltips">>
              [] primary_cat = "performance" ->
                    <<"Optimize processing pipeline",
                      "Investigate latency bottlenecks">>
              [] primary_cat = "policy_friction" ->
                    <<"Review policy application logic",
                      "Improve refusal explanations">>
              [] primary_cat = "misunderstanding" ->
                    <<"Improve user documentation", "Add clarifying examples">>
              [] OTHER -> <<>>
        joined_or_manual(suggestions) ==
            IF suggestions # <<>> THEN JoinWith(suggestions, "; ")
            ELSE "Requires manual investigation and review"
    IN  joined_or_manual(suggestions_for(d.primary_category,
                                         Range(d.probable_root_causes)))

\* Python truthiness of a str-or-None value.
Truthy(x) == x # None /\ x # ""

\* calculate_confidence without its cap and with a larger category bonus.
calculate_confidence_uncapped(d) ==
    50
    + (IF Truthy(d.user_intent) /\ Len(d.user_intent) > 20 THEN 10 ELSE 0)
    + (IF Truthy(d.observed_outcome) /\ Len(d.observed_outcome) > 20
       THEN 10 ELSE 0)
    + (IF Truthy(d.context) THEN 5 ELSE 0)
    + (IF d.primary_category # "other" THEN 25 ELSE 0)
    + (IF d.secondary_categories # <<>> THEN 10 ELSE 0)

\* utils.calculate_confidence, in hundredths.
calculate_confidence(d) ==
    Min(50
        + (IF Truthy(d.user_intent) /\ Len(d.user_intent) > 20 THEN 10 ELSE 0)
        + (IF Truthy(d.observed_outcome) /\ Len(d.observed_outcome) > 20
           THEN 10 ELSE 0)
        + (IF Truthy(d.context) THEN 5 ELSE 0)
        + (IF d.primary_category # "other" THEN 15 ELSE 0)
        + (IF d.secondary_categories # <<>> THEN 10 ELSE 0),
        100)

\* classify_full with the routing suggested first, from the severity, the
\* category and the root causes the record held before.
classify_fields_routing_first(d) ==
    LET cat == classify_category(d.user_summary, d.user_intent,
                                 d.observed_outcome)
        r1 == [d EXCEPT !.routing_target = suggest_routing(d),
                        !.primary_category = cat.primary,
                        !.secondary_categories = cat.secondary]
        sev == calculate_severity(r1)
        r2 == [r1 EXCEPT !.severity = sev.severity, !.severity_basis = sev.basis]
        r3 == [r2 EXCEPT !.probable_root_causes = identify_root_causes(r2)]
        r4 == [r3 EXCEPT !.suggested_fix = suggest_fix(r3)]
    IN  [r4 EXCEPT !.confidence = calculate_confidence(r4)]

\* classifier.classify_full, field by field, each step setting its fields
\* from the record the step before left.
classify_fields(d) ==
    LET set_categories(r, cat) ==
            [r EXCEPT !.primary_category = cat.primary,
                      !.secondary_categories = cat.secondary]
        set_severity(r, sev) ==
            [r EXCEPT !.severity = sev.severity, !.severity_basis = sev.basis]
        with_categories(r) ==
            set_categories(r, classify_category(r.user_summary, r.user_intent,
                                                r.observed_outcome))
        with_severity(r) == set_severity(r, calculate_severity(r))
        with_root_causes(r) ==
            [r EXCEPT !.probable_root_causes = identify_root_causes(r)]
        with_routing(r) == [r EXCEPT !.routing_target = suggest_routing(r)]
        with_fix(r) == [r EXCEPT !.suggested_fix = suggest_fix(r)]
        with_confidence(r) == [r EXCEPT !.confidence = calculate_confidence(r)]
    IN  with_confidence(with_fix(with_routing(with_root_causes(with_severity(
            with_categories(d))))))

\* The fields classify_full reads, and a record of them with the fields it
\* writes still blank.
classify_reads(d) ==
    [user_summary |-> d.user_summary, user_intent |-> d.user_intent,
     observed_outcome |-> d.observed_outcome, frequency |-> d.frequency,
     context |-> d.context]

unclassified(reads) ==
    [user_summary |-> reads.user_summary, user_intent |-> reads.user_intent,
     observed_outcome |-> reads.observed_outcome, frequency |-> reads.frequency,
     context |-> reads.context,
     primary_category |-> None, secondary_categories |-> <<>>,
     severity |-> None, severity_basis |-> <<>>, probable_root_causes |-> <<>>,
     routing_target |-> None, suggested_fix |-> None, confidence |-> 0]

\* What the reporters of the pools leave in those fields: a quick report's
\* sanitized texts, and an intake's message with each field answered, left
\* empty or filled in as not provided.
IntakeTexts ==
    {sanitize_text(a, SANITIZE_MAX_LENGTH) : a \in IntakeAnswers}
    \cup {"", "Not provided"}

KnownReads ==
    {[user_summary |-> sanitize_text(r.user_summary, SANITIZE_MAX_LENGTH),
      user_intent |-> sanitize_text(r.user_intent, SANITIZE_MAX_LENGTH),
      observed_outcome |-> sanitize_text(r.observed_outcome, SANITIZE_MAX_LENGTH),
      frequency |-> r.frequency, context |-> None] : r \in Reports}
    \cup {[user_summary |-> sanitize_text(m, SANITIZE_MAX_LENGTH),
           user_intent |-> i, observed_outcome |-> o,
           frequency |-> "unknown", context |-> None] :
                m \in IntakeMessages, i \in IntakeTexts, o \in IntakeTexts}

\* classify_fields over the known texts, computed once.
ClassifiedReads == [reads \in KnownReads |-> classify_fields(unclassified(reads))]

\* classifier.classify_full: the record with its eight classification fields
\* set, the classification looked up for the known texts.
classify_full(d) ==
    LET classification_of(reads) ==
            IF reads \in KnownReads THEN ClassifiedReads[reads]
            ELSE classify_fields(d)
        set_classification(c) ==
            [d EXCEPT !.primary_category = c.primary_category,
                      !.secondary_categories = c.secondary_categories,
                      !.severity = c.severity,
                      !.severity_basis = c.severity_basis,
                      !.probable_root_causes = c.probable_root_causes,
                      !.routing_target = c.routing_target,
                      !.suggested_fix = c.suggested_fix,
                      !.confidence = c.confidence]
    IN  set_classification(classification_of(classify_reads(d)))

\* ------------------------------------------------------------------ json

\* A JSON document is a tagged tree: what json.dump writes and json.load reads.
JNull == [j |-> "null"]
JString(v) == [j |-> "string", s |-> v]
JNumber(v) == [j |-> "number", n |-> v]
JArray(items) == [j |-> "array", items |-> items]
JObject(members) == [j |-> "object", members |-> members]

\* The fields of a complaint record that hold lists and a number; the others
\* hold a str or None.
TEXT_LIST_FIELDS ==
    {"secondary_categories", "severity_basis", "probable_root_causes",
     "related_complaints"}
DICT_LIST_FIELDS == {"evidence", "audit_trail"}
NUMBER_FIELDS == {"confidence"}

json_text(v) == IF v = None THEN JNull ELSE JString(v)

json_dict_of_text(d) == JObject([k \in DOMAIN d |-> json_text(d[k])])

\* json.dump of one field's value.
json_field(name, v) ==
    IF name \in NUMBER_FIELDS THEN JNumber(v)
    ELSE IF name \in TEXT_LIST_FIELDS
    THEN JArray([i \in DOMAIN v |-> json_text(v[i])])
    ELSE IF name \in DICT_LIST_FIELDS
    THEN JArray([i \in DOMAIN v |-> json_dict_of_text(v[i])])
    ELSE json_text(v)

\* json.dump of a record without its list-valued fields.
json_dump_scalars_only(d) ==
    JObject([k \in DOMAIN d \ (TEXT_LIST_FIELDS \cup DICT_LIST_FIELDS) |->
                json_field(k, d[k])])

\* json.dump(complaint_data, f, indent=2)
json_dump_record(d) == JObject([k \in DOMAIN d |-> json_field(k, d[k])])

\* json.dump(index, f, indent=2): a dict from a value to a list of IDs.
json_dump_index(index) ==
    JObject([k \in DOMAIN index |->
                JArray([i \in DOMAIN index[k] |-> JString(index[k][i])])])

\* json.load
RECURSIVE json_load(_)
json_load(doc) ==
    CASE doc.j = "null" -> None
      [] doc.j = "string" -> doc.s
      [] doc.j = "number" -> doc.n
      [] doc.j = "array" -> [i \in DOMAIN doc.items |-> json_load(doc.items[i])]
      [] doc.j = "object" ->
            [k \in DOMAIN doc.members |-> json_load(doc.members[k])]

\* A file of the data directory is missing (no entry under its path), holds a
\* JSON document, or holds the torn text a write leaves when it fails after
\* open(path, 'w') truncated.
Corrupt == [kind |-> "corrupt"]
JsonFile(doc) == [kind |-> "json", doc |-> doc]

\* ------------------------------------------------------------ identifiers

\* re.match(r'CMP-(\d{4})-(\d{2})-(\d{2})-[A-Z0-9]{6}', s): anchored at the
\* start only.
matches_id_prefix(s) ==
    LET c(i) == SubSeq(s, i, i)
    IN  /\ Len(s) >= 21
        /\ SubSeq(s, 1, 4) = "CMP-"
        /\ \A i \in 5..8 : IsDigit(c(i))
        /\ c(9) = "-"
        /\ \A i \in 10..11 : IsDigit(c(i))
        /\ c(12) = "-"
        /\ \A i \in 13..14 : IsDigit(c(i))
        /\ c(15) = "-"
        /\ \A i \in 16..21 : IsUpper(c(i)) \/ IsDigit(c(i))

\* re.match(r'^CMP-\d{4}-\d{2}-\d{2}-[A-Z0-9]{6}$', s): `$` matches at the end
\* of the string and also just before a final newline.
matches_id_regex(s) ==
    /\ matches_id_prefix(s)
    /\ \/ Len(s) = 21
       \/ Len(s) = 22 /\ SubSeq(s, 22, 22) = "\n"

\* utils.generate_complaint_id: the date of the wall clock and six characters
\* drawn by random.choices are its two inputs.
generate_complaint_id(date_part, random_part) ==
    "CMP-" \o date_part \o "-" \o random_part

\* utils.get_complaint_file_path
get_complaint_file_path(complaint_id) ==
    IF matches_id_prefix(complaint_id)
    THEN "complaints/" \o SubSeq(complaint_id, 5, 8) \o "/"
         \o SubSeq(complaint_id, 10, 11) \o "/" \o complaint_id \o ".json"
    ELSE "complaints/" \o complaint_id \o ".json"

\* utils.format_timestamp() at clock reading t.
format_timestamp(t) == "T" \o ToString(t)

\* -------------------------------------------------------------- utils.py

REQUIRED_FIELDS ==
    <<"complaint_id", "reported_at", "status", "primary_category", "severity",
      "user_intent", "observed_outcome", "expected_outcome", "confidence">>

VALID_STATUSES ==
    <<"new", "triaged", "structured", "clustered", "routed", "in_progress",
      "awaiting_user", "resolved", "closed", "reopened">>

VALID_CATEGORIES ==
    <<"bug", "model_behavior", "ux_ui", "feature_request", "policy_friction",
      "performance", "trust_safety", "misunderstanding", "other">>

VALID_SEVERITIES == <<"low", "medium", "high", "critical">>

\* validate_complaint_schema without its status check.
validate_without_status_enum(d) ==
    /\ \A i \in DOMAIN REQUIRED_FIELDS : REQUIRED_FIELDS[i] \in DOMAIN d
    /\ matches_id_regex(d.complaint_id)
    /\ d.primary_category \in Range(VALID_CATEGORIES)
    /\ d.severity \in Range(VALID_SEVERITIES)
    /\ 0 <= d.confidence /\ d.confidence <= 100

\* validate_complaint_schema looking only at the fields being there.
validate_presence_only(d) ==
    \A i \in DOMAIN REQUIRED_FIELDS : REQUIRED_FIELDS[i] \in DOMAIN d

\* utils.validate_complaint_schema: TRUE for (True, None).  A check that
\* raises (a None where a string or a number is expected) is caught and
\* answers False like a failed check.
validate_complaint_schema(d) ==
    /\ \A i \in DOMAIN REQUIRED_FIELDS : REQUIRED_FIELDS[i] \in DOMAIN d
    /\ matches_id_regex(d.complaint_id)
    /\ d.status \in Range(VALID_STATUSES)
    /\ d.primary_category \in Range(VALID_CATEGORIES)
    /\ d.severity \in Range(VALID_SEVERITIES)
    /\ 0 <= d.confidence /\ d.confidence <= 100

\* add_audit_entry with the trail started over instead of appended to.
add_audit_entry_overwriting(d, actor, action, t) ==
    ("audit_trail" :> <<[timestamp |-> format_timestamp(t), actor |-> actor,
                         action |-> action]>>) @@ d

\* utils.add_audit_entry at clock reading t.
add_audit_entry(d, actor, action, t) ==
    LET trail == IF "audit_trail" \in DOMAIN d THEN d.audit_trail ELSE <<>>
        entry == [timestamp |-> format_timestamp(t), actor |-> actor,
                  action |-> action]
    IN  ("audit_trail" :> Append(trail, entry)) @@ d

\* utils.extract_keywords, as the set its callers make of it.
extract_keywords(text) ==
    LET text_lower == Lower(text)
    IN  {kw \in UNION {Range(PRIMARY_CATEGORIES[c]) : c \in Range(CategoryOrder)} :
            Contains(text_lower, kw)}

\* ------------------------------------------------------------- storage.py

\* dict.get(key, default)
Get(d, key, default) == IF key \in DOMAIN d THEN d[key] ELSE default

\* d[key] = value
Put(d, key, value) == (key :> value) @@ d

\* dict.update(updates), the updates a sequence of <<key, value>> pairs.
RECURSIVE dict_update(_, _)
dict_update(d, updates) ==
    IF updates = <<>> THEN d
    ELSE dict_update(Put(d, Head(updates)[1], Head(updates)[2]), Tail(updates))

\* list.remove(x): the first occurrence goes.
list_remove(l, x) ==
    LET i == CHOOSE k \in DOMAIN l : l[k] = x /\ \A j \in 1..(k - 1) : l[j] # x
    IN  SubSeq(l, 1, i - 1) \o SubSeq(l, i + 1, Len(l))

(* The world a ComplaintStorage call runs in:                               *)
(*   files  the complaint files of the data directory, by path;             *)
(*   idx    the index files of the data directory, by name;                 *)
(*   mem    the instance's category_index, severity_index, status_index;    *)
(*   io     the file writes of this call: how many were started, which one  *)
(*          fails (0: none) and how, and whether it has failed.             *)
NoFault == [fail_at |-> 0, mode |-> "open"]

Enter(w, fault) ==
    [w EXCEPT !.io = [writes |-> 0, fail_at |-> fault.fail_at,
                      mode |-> fault.mode, failed |-> FALSE]]

\* A call's outcome: the world it leaves, what it returns, whether it raised.
Result(w, ret) == [w |-> w, ret |-> ret, raised |-> FALSE]
Raised(w) == [w |-> w, ret |-> FALSE, raised |-> TRUE]

\* with open(path, 'w') as f: json.dump(doc, f).  A failing open leaves the
\* file as it was; a failure after the open leaves it truncated or torn.
write_file(w, area, path, doc) ==
    LET n == w.io.writes + 1
        io1 == [w.io EXCEPT !.writes = n]
    IN  IF n = w.io.fail_at /\ w.io.mode = "open"
        THEN [w EXCEPT !.io = [io1 EXCEPT !.failed = TRUE]]
        ELSE IF n = w.io.fail_at
        THEN [w EXCEPT ![area] = Put(w[area], path, Corrupt),
                       !.io = [io1 EXCEPT !.failed = TRUE]]
        ELSE [w EXCEPT ![area] = Put(w[area], path, JsonFile(doc)), !.io = io1]

\* ComplaintStorage._load_index: a missing file reads as {}, a torn one
\* makes json.load raise.
index_readable(index_files, filename) ==
    filename \in DOMAIN index_files => index_files[filename].kind = "json"

load_index(index_files, filename) ==
    IF filename \in DOMAIN index_files THEN json_load(index_files[filename].doc) ELSE <<>>

\* ComplaintStorage._load_indices
load_indices(index_files) ==
    [category_index |-> load_index(index_files, "by_category.json"),
     severity_index |-> load_index(index_files, "by_severity.json"),
     status_index |-> load_index(index_files, "by_status.json")]

\* ComplaintStorage._save_index
save_index(w, filename, data) == write_file(w, "idx", filename, json_dump_index(data))

\* index_add without the membership test: the ID is appended every time.
index_add_again(index, key, complaint_id) ==
    Put(index, key, Append(Get(index, key, <<>>), complaint_id))

\* if key not in index: index[key] = []; if id not in index[key]: append.
index_add(index, key, complaint_id) ==
    LET bucket == Get(index, key, <<>>)
    IN  Put(index, key,
            IF complaint_id \in Range(bucket) THEN bucket
            ELSE Append(bucket, complaint_id))

\* ComplaintStorage._update_indices: the three in-memory indices change
\* first, then the three files are written in turn; a failing write raises
\* and the writes after it do not happen.
update_indices(w, complaint_data) ==
    LET add_to_indices(mem, complaint_id, category, severity, status) ==
            [category_index |->
                index_add(mem.category_index, category, complaint_id),
             severity_index |->
                index_add(mem.severity_index, severity, complaint_id),
             status_index |-> index_add(mem.status_index, status, complaint_id)]
        then_save_index(v, filename, index_name) ==
            IF v.io.failed THEN v ELSE save_index(v, filename, v.mem[index_name])
        save_indices(v) ==
            then_save_index(
                then_save_index(
                    then_save_index(v, "by_category.json", "category_index"),
                    "by_severity.json", "severity_index"),
                "by_status.json", "status_index")
    IN  save_indices([w EXCEPT !.mem =
            add_to_indices(w.mem, complaint_data.complaint_id,
                           Get(complaint_data, "primary_category", "other"),
                           Get(complaint_data, "severity", "low"),
                           Get(complaint_data, "status", "new"))])

\* ComplaintStorage.save: every exception inside is caught and answers False.
save(w, complaint_data) ==
    LET after_indices(v) == Result(v, ~v.io.failed)
        after_record_write(v) ==
            IF v.io.failed THEN Result(v, FALSE)
            ELSE after_indices(update_indices(v, complaint_data))
    IN  IF ~validate_complaint_schema(complaint_data) THEN Result(w, FALSE)
        ELSE after_record_write(
                write_file(w, "files",
                           get_complaint_file_path(complaint_data.complaint_id),
                           json_dump_record(complaint_data)))

\* ComplaintStorage.load answers a record (not None): the file exists and
\* json.load reads it.
loadable(complaints, complaint_id) ==
    LET file_path == get_complaint_file_path(complaint_id)
    IN  file_path \in DOMAIN complaints /\ complaints[file_path].kind = "json"

\* ComplaintStorage.load, where it answers a record.
load(complaints, complaint_id) ==
    json_load(complaints[get_complaint_file_path(complaint_id)].doc)

update_action(updates) ==
    "Updated fields: " \o JoinWith([i \in DOMAIN updates |-> updates[i][1]], ", ")

\* update without its `if complaint_data is None: return False`: the
\* updates are applied to None, which raises.
update_without_none_check(w, complaint_id, updates, t) ==
    IF ~loadable(w.files, complaint_id) THEN Raised(w)
    ELSE save(w, add_audit_entry(dict_update(load(w.files, complaint_id), updates),
                                 "system", update_action(updates), t))

\* ComplaintStorage.update
update(w, complaint_id, updates, t) ==
    IF ~loadable(w.files, complaint_id) THEN Result(w, FALSE)
    ELSE save(w, add_audit_entry(dict_update(load(w.files, complaint_id), updates),
                                 "system", update_action(updates), t))

status_action(old_status, new_status) ==
    "Status changed: " \o old_status \o " -> " \o new_status

\* The transition check of update_status: the target is a declared edge of
\* the current status, or the current status itself.
transition_allowed_to_any_status(old_status, new_status) ==
    new_status \in Range(VALID_STATUSES)

transition_allowed(old_status, new_status) ==
    new_status \in Range(valid_transitions(old_status)) \/ new_status = old_status

\* The move without the removal: the ID is added under the new status and
\* stays listed under the old one.
move_in_status_index_adding_only(w, complaint_id, old_status, new_status) ==
    save_index(
        [w EXCEPT !.mem.status_index =
            index_add(w.mem.status_index, new_status, complaint_id)],
        "by_status.json",
        index_add(w.mem.status_index, new_status, complaint_id))

\* The move with list.remove called unguarded: it raises when this instance's
\* index does not list the ID under the old status.
move_in_status_index_unguarded(w, complaint_id, old_status, new_status) ==
    IF old_status \notin DOMAIN w.mem.status_index
       \/ complaint_id \notin Range(Get(w.mem.status_index, old_status, <<>>))
    THEN [w EXCEPT !.io.failed = TRUE]
    ELSE save_index(
            [w EXCEPT !.mem.status_index =
                index_add(Put(w.mem.status_index, old_status,
                              list_remove(w.mem.status_index[old_status],
                                          complaint_id)),
                          new_status, complaint_id)],
            "by_status.json",
            index_add(Put(w.mem.status_index, old_status,
                          list_remove(w.mem.status_index[old_status],
                                      complaint_id)),
                      new_status, complaint_id))

\* update_status moves the ID in the in-memory status index, out of the old
\* status's list and into the new one's, and writes the index file.
move_in_status_index(w, complaint_id, old_status, new_status) ==
    LET without_old(status_index) ==
            IF old_status \in DOMAIN status_index
               /\ complaint_id \in Range(status_index[old_status])
            THEN Put(status_index, old_status,
                     list_remove(status_index[old_status], complaint_id))
            ELSE status_index
        save_status_index(v) ==
            save_index(v, "by_status.json", v.mem.status_index)
    IN  save_status_index(
            [w EXCEPT !.mem.status_index =
                index_add(without_old(w.mem.status_index), new_status,
                          complaint_id)])

\* update_status with the index moved before the transition is checked.
update_status_index_first(w, complaint_id, new_status, t) ==
    IF ~loadable(w.files, complaint_id) THEN Result(w, FALSE)
    ELSE LET d0 == load(w.files, complaint_id)
             old_status == Get(d0, "status", "new")
             w1 == move_in_status_index(w, complaint_id, old_status, new_status)
             d2 == add_audit_entry(Put(d0, "status", new_status), "system",
                                   status_action(old_status, new_status), t)
         IN  IF ~transition_allowed(old_status, new_status) THEN Result(w1, FALSE)
             ELSE save(w1, d2)

\* ComplaintStorage.update_status.  The status index is moved and written
\* (outside any try, so an exception there leaves the call) before save()
\* writes the record.
update_status(w, complaint_id, new_status, t) ==
    LET save_moved(v, complaint_data) ==
            IF v.io.failed THEN Raised(v) ELSE save(v, complaint_data)
        change_status(complaint_data, old_status) ==
            IF ~transition_allowed(old_status, new_status) THEN Result(w, FALSE)
            ELSE save_moved(
                    move_in_status_index(w, complaint_id, old_status, new_status),
                    add_audit_entry(Put(complaint_data, "status", new_status),
                                    "system",
                                    status_action(old_status, new_status), t))
        change_loaded(complaint_data) ==
            change_status(complaint_data, Get(complaint_data, "status", "new"))
    IN  IF ~loadable(w.files, complaint_id) THEN Result(w, FALSE)
        ELSE change_loaded(load(w.files, complaint_id))

\* ComplaintStorage.search_by_category
search_by_category(w, category) ==
    LET load_all(complaint_ids) ==
            [i \in DOMAIN complaint_ids |-> load(w.files, complaint_ids[i])]
    IN  load_all(SelectSeq(Get(w.mem.category_index, category, <<>>),
                           LAMBDA cid : loadable(w.files, cid)))

similarity_text(d) ==
    Lower(Str(Get(d, "user_intent", "")) \o " " \o Str(Get(d, "observed_outcome", "")))

\* extract_keywords(similarity_text(d)) over the known texts, computed once.
similarity_reads(d) ==
    [user_intent |-> Get(d, "user_intent", ""),
     observed_outcome |-> Get(d, "observed_outcome", "")]

KnownSimilarityReads ==
    {similarity_reads(reads) : reads \in KnownReads}
    \cup {[user_intent |-> sanitize_text(SampleReport.user_intent,
                                          SANITIZE_MAX_LENGTH),
            observed_outcome |-> sanitize_text(SampleReport.observed_outcome,
                                               SANITIZE_MAX_LENGTH)]}

KnownKeywords ==
    [reads \in KnownSimilarityReads |-> extract_keywords(similarity_text(reads))]

similarity_keywords(d) ==
    LET keywords_of(reads) ==
            IF reads \in KnownSimilarityReads THEN KnownKeywords[reads]
            ELSE extract_keywords(similarity_text(d))
    IN  keywords_of(similarity_reads(d))

\* find_similar_complaints without the keyword comparison: every other record
\* of the category is similar.
find_similar_complaints_by_category(w, complaint_data) ==
    LET same_category ==
            search_by_category(w, Get(complaint_data, "primary_category", "other"))
        others ==
            SelectSeq(same_category,
                      LAMBDA existing :
                        existing.complaint_id
                            # Get(complaint_data, "complaint_id", None))
    IN  [i \in DOMAIN others |-> others[i].complaint_id]

\* find_similar_complaints with the overlap taken over the existing record's
\* keywords instead of the new record's.
find_similar_complaints_by_existing(w, complaint_data) ==
    LET overlaps(new_keywords, existing_keywords) ==
            /\ Cardinality(existing_keywords) > 0
            /\ 2 * Cardinality(new_keywords \cap existing_keywords)
                  >= Cardinality(existing_keywords)
        ids_of(complaints) ==
            [i \in DOMAIN complaints |-> complaints[i].complaint_id]
        similar_among(same_category, complaint_id, new_keywords) ==
            ids_of(SelectSeq(same_category,
                    LAMBDA existing :
                        /\ existing.complaint_id # complaint_id
                        /\ overlaps(new_keywords,
                                    similarity_keywords(existing))))
    IN  similar_among(
            search_by_category(w, Get(complaint_data, "primary_category",
                                      "other")),
            Get(complaint_data, "complaint_id", None),
            similarity_keywords(complaint_data))

\* ComplaintStorage.find_similar_complaints: an existing complaint of the
\* same category is similar when it has at least half of the new keywords.
find_similar_complaints(w, complaint_data) ==
    LET overlaps(new_keywords, existing_keywords) ==
            /\ Cardinality(new_keywords) > 0
            /\ 2 * Cardinality(new_keywords \cap existing_keywords)
                  >= Cardinality(new_keywords)
        ids_of(complaints) ==
            [i \in DOMAIN complaints |-> complaints[i].complaint_id]
        similar_among(same_category, complaint_id, new_keywords) ==
            ids_of(SelectSeq(same_category,
                    LAMBDA existing :
                        /\ existing.complaint_id # complaint_id
                        /\ overlaps(new_keywords,
                                    similarity_keywords(existing))))
    IN  similar_among(
            search_by_category(w, Get(complaint_data, "primary_category",
                                      "other")),
            Get(complaint_data, "complaint_id", None),
            similarity_keywords(complaint_data))

\* ComplaintStorage.get_statistics: the counts of this instance's in-memory
\* indices; the total is the number of IDs get_all_complaint_ids collects
\* from the category index.
get_statistics(w) ==
    LET get_all_complaint_ids(category_index) ==
            UNION {Range(category_index[k]) : k \in DOMAIN category_index}
        sizes(index) == [k \in DOMAIN index |-> Len(index[k])]
    IN  [total_complaints |->
            Cardinality(get_all_complaint_ids(w.mem.category_index)),
         by_category |-> sizes(w.mem.category_index),
         by_severity |-> sizes(w.mem.severity_index),
         by_status |-> sizes(w.mem.status_index)]

\* ------------------------------------------------ conversation_handler.py

EmptyDict == <<>>

\* ConversationHandler.__init__ and reset
IdleConversation ==
    [conversation_state |-> "idle", current_round |-> 0,
     complaint_data |-> EmptyDict, missing_fields |-> <<>>]

\* The record both intake routes start from (start_intake, quick_file_complaint).
blank_complaint(complaint_id, t, incident_at, said) ==
    [complaint_id |-> complaint_id,
     reported_at |-> format_timestamp(t),
     incident_at |-> incident_at,
     status |-> "new",
     user_summary |-> sanitize_text(said.user_summary, SANITIZE_MAX_LENGTH),
     primary_category |-> None,
     secondary_categories |-> <<>>,
     severity |-> None,
     severity_basis |-> <<>>,
     frequency |-> said.frequency,
     user_intent |-> sanitize_text(said.user_intent, SANITIZE_MAX_LENGTH),
     observed_outcome |-> sanitize_text(said.observed_outcome, SANITIZE_MAX_LENGTH),
     expected_outcome |-> sanitize_text(said.expected_outcome, SANITIZE_MAX_LENGTH),
     context |-> None,
     evidence |-> <<>>,
     probable_root_causes |-> <<>>,
     related_complaints |-> <<>>,
     routing_target |-> None,
     suggested_fix |-> None,
     confidence |-> 0,
     audit_trail |-> <<>>]

INTAKE_FIELDS == <<"user_intent", "observed_outcome", "expected_outcome">>

\* ConversationHandler._identify_missing_fields
identify_missing_fields(complaint_data) ==
    SelectSeq(INTAKE_FIELDS, LAMBDA f : ~Truthy(Get(complaint_data, f, None)))

\* ConversationHandler.start_intake with _generate_initial_response
start_intake(initial_message, complaint_id, t) ==
    LET intake_of(complaint_data) ==
            [conversation_state |-> "active",
             current_round |-> 0,
             complaint_data |-> complaint_data,
             missing_fields |-> identify_missing_fields(complaint_data)]
    IN  intake_of(add_audit_entry(
            blank_complaint(complaint_id, t, None,
                            [user_summary |-> initial_message,
                             frequency |-> "unknown", user_intent |-> "",
                             observed_outcome |-> "", expected_outcome |-> ""]),
            "system", "Complaint intake initiated", t))

\* ConversationHandler._finalize_with_partial_data
finalize_with_partial_data(conv) ==
    LET fill(d, f) == IF Truthy(Get(d, f, None)) THEN d ELSE Put(d, f, "Not provided")
        RECURSIVE fill_all(_, _)
        fill_all(d, fs) == IF fs = <<>> THEN d ELSE fill_all(fill(d, Head(fs)), Tail(fs))
    IN  [conv EXCEPT !.conversation_state = "complete",
                     !.complaint_data = fill_all(conv.complaint_data,
                                                 conv.missing_fields)]

\* process_response storing the answer without popping the field it went
\* into: the list of missing fields never empties.
process_response_keeping_field(conv, user_response) ==
    LET store_response(c) ==
            IF c.missing_fields # <<>>
            THEN [c EXCEPT
                    !.complaint_data =
                        Put(c.complaint_data, c.missing_fields[1],
                            sanitize_text(user_response, SANITIZE_MAX_LENGTH))]
            ELSE c
        process_round(c) ==
            IF c.current_round > MAX_CLARIFICATION_ROUNDS
            THEN finalize_with_partial_data(c)
            ELSE store_response(c)
    IN  IF conv.conversation_state # "active" THEN conv
        ELSE process_round([conv EXCEPT !.current_round = conv.current_round + 1])

\* ConversationHandler.process_response with _prepare_for_finalization: the
\* round is counted; past the last round the intake is finalized with what
\* there is; otherwise the answer goes into the first missing field, which is
\* popped, and the intake is complete when nothing is missing.
process_response(conv, user_response) ==
    LET store_response(c) ==
            IF c.missing_fields # <<>>
            THEN [c EXCEPT
                    !.complaint_data =
                        Put(c.complaint_data, c.missing_fields[1],
                            sanitize_text(user_response, SANITIZE_MAX_LENGTH)),
                    !.missing_fields = Tail(c.missing_fields)]
            ELSE c
        finalize_if_complete(c) ==
            IF c.missing_fields = <<>>
            THEN [c EXCEPT !.conversation_state = "complete"]
            ELSE c
        process_round(c) ==
            IF c.current_round > MAX_CLARIFICATION_ROUNDS
            THEN finalize_with_partial_data(c)
            ELSE finalize_if_complete(store_response(c))
    IN  IF conv.conversation_state # "active" THEN conv
        ELSE process_round([conv EXCEPT !.current_round = conv.current_round + 1])

\* --------------------------------------------------- complaint_system.py

\* similar = find_similar_complaints(d); if similar: d["related_complaints"] = similar
with_related(d, similar) ==
    IF similar # <<>> THEN Put(d, "related_complaints", similar) ELSE d

\* ComplaintSystem._process_complaint: the four stages, then the save; on
\* success the conversation is reset.  get_complaint_data() is a shallow
\* copy, so the audit entries added here are in the conversation's own list
\* either way.
process_complaint(w, conv, t) ==
    LET triaged(d) ==
            add_audit_entry(Put(d, "status", "triaged"), "system",
                            "Complaint triaged", t)
        structured(d) ==
            add_audit_entry(Put(d, "status", "structured"), "system",
                            "Complaint structured and classified", t)
        clustered_with(d, similar) ==
            add_audit_entry(Put(with_related(d, similar), "status", "clustered"),
                            "system",
                            "Clustered with " \o ToString(Len(similar))
                            \o " similar complaints", t)
        clustered(d) == clustered_with(d, find_similar_complaints(w, d))
        routed(d) ==
            add_audit_entry(Put(d, "status", "routed"), "system",
                            "Routed to " \o d.routing_target, t)
        processed(filed, r) ==
            [w |-> r.w,
             conv |-> IF r.ret THEN IdleConversation
                      ELSE [conv EXCEPT !.complaint_data =
                                Put(conv.complaint_data, "audit_trail",
                                    filed.audit_trail)],
             ret |-> r.ret,
             filed |-> filed]
        save_processed(filed) == processed(filed, save(w, filed))
    IN  save_processed(
            routed(clustered(structured(classify_full(
                triaged(conv.complaint_data))))))

\* ComplaintSystem.start_complaint_intake
start_complaint_intake(system, initial_message, complaint_id, t) ==
    [system EXCEPT !.mode = "complaint_intake",
                   !.conversation = start_intake(initial_message, complaint_id, t)]

\* ComplaintSystem.continue_conversation: the system and the world it leaves.
continue_conversation(w, system, user_response, t) ==
    LET after_processing(p) ==
            [w |-> p.w,
             sys |-> [system EXCEPT !.conversation = p.conv, !.mode = "normal"],
             filed |-> TRUE, saved |-> p.ret, id |-> p.filed.complaint_id]
        after_response(conv) ==
            IF conv.conversation_state = "complete"
            THEN after_processing(process_complaint(w, conv, t))
            ELSE [w |-> w, sys |-> [system EXCEPT !.conversation = conv],
                  filed |-> FALSE, saved |-> FALSE, id |-> None]
    IN  IF system.mode # "complaint_intake"
        THEN [w |-> w, sys |-> system, filed |-> FALSE, saved |-> FALSE,
              id |-> None]
        ELSE after_response(process_response(system.conversation,
                                             user_response))

\* ComplaintSystem.update_complaint_status and close_complaint hand over to
\* storage.update_status.
update_complaint_status(w, complaint_id, new_status, t) ==
    update_status(w, complaint_id, new_status, t)

\* close_complaint removing the record file instead of changing its status.
close_complaint_deleting(w, complaint_id, t) ==
    IF ~loadable(w.files, complaint_id) THEN Result(w, FALSE)
    ELSE Result([w EXCEPT !.files =
                    [path \in DOMAIN w.files
                            \ {get_complaint_file_path(complaint_id)} |->
                        w.files[path]]],
                TRUE)

close_complaint(w, complaint_id, t) == update_status(w, complaint_id, "closed", t)

\* The tail of resolve_complaint and reopen_complaint: after a successful
\* status change and with a non-empty note, load, add one entry, save (the
\* save's own answer is dropped).
annotate(r, complaint_id, note, actor, action, t) ==
    IF r.raised \/ ~r.ret \/ note = "" THEN r
    ELSE Result(save(r.w, add_audit_entry(load(r.w.files, complaint_id),
                                          actor, action, t)).w,
                r.ret)

\* ComplaintSystem.resolve_complaint
resolve_complaint(w, complaint_id, resolution, t) ==
    annotate(update_status(w, complaint_id, "resolved", t), complaint_id,
             resolution, "system", "Resolved: " \o resolution, t)

\* reopen_complaint without its test of the stored status.
reopen_complaint_from_any_status(w, complaint_id, reason, t) ==
    IF ~loadable(w.files, complaint_id) THEN Result(w, FALSE)
    ELSE annotate(update_status(w, complaint_id, "reopened", t), complaint_id,
                  reason, "user", "Reopened: " \o reason, t)

\* ComplaintSystem.reopen_complaint
reopen_complaint(w, complaint_id, reason, t) ==
    IF ~loadable(w.files, complaint_id) THEN Result(w, FALSE)
    ELSE IF load(w.files, complaint_id).status # "closed" THEN Result(w, FALSE)
    ELSE annotate(update_status(w, complaint_id, "reopened", t), complaint_id,
                  reason, "user", "Reopened: " \o reason, t)

\* quick_file_complaint making the relation mutual: the first similar record
\* is rewritten with the new ID among its related_complaints.
quick_file_complaint_linking_back(w, report, complaint_id, t) ==
    LET filed ==
            Put(classify_full(add_audit_entry(
                    blank_complaint(complaint_id, t, format_timestamp(t), report),
                    "api", "Quick complaint filed", t)),
                "status", "routed")
        similar == find_similar_complaints(w, filed)
        related == with_related(filed, similar)
        saved == save(w, related)
        earlier == load(saved.w.files, similar[1])
        linked ==
            save(saved.w,
                 Put(earlier, "related_complaints",
                     Append(earlier.related_complaints, complaint_id)))
    IN  IF similar = <<>> THEN [w |-> saved.w, ret |-> saved.ret, filed |-> related]
        ELSE [w |-> linked.w, ret |-> saved.ret, filed |-> related]

\* quick_file_complaint without the classification step.
quick_file_complaint_unclassified(w, report, complaint_id, t) ==
    LET relate(d) == with_related(d, find_similar_complaints(w, d))
        filed_as(filed, r) == [w |-> r.w, ret |-> r.ret, filed |-> filed]
        save_filed(filed) == filed_as(filed, save(w, filed))
    IN  save_filed(
            Put(relate(add_audit_entry(
                    blank_complaint(complaint_id, t, format_timestamp(t),
                                    report),
                    "api", "Quick complaint filed", t)),
                "status", "routed"))

\* ComplaintSystem.quick_file_complaint: the record it returns and the world
\* it leaves (the save's answer is dropped).
quick_file_complaint(w, report, complaint_id, t) ==
    LET relate(d) == with_related(d, find_similar_complaints(w, d))
        filed_as(filed, r) == [w |-> r.w, ret |-> r.ret, filed |-> filed]
        save_filed(filed) == filed_as(filed, save(w, filed))
    IN  save_filed(
            Put(relate(classify_full(add_audit_entry(
                    blank_complaint(complaint_id, t, format_timestamp(t),
                                    report),
                    "api", "Quick complaint filed", t))),
                "status", "routed"))

\* ------------------------------------------------------------ the inputs

\* Bounds of the model.
NumRandomParts == 2
MaxClock == 3
MaxFaults == 1
MaxWritesPerCall == 9

\* The wall-clock date and the random.choices draws of generate_complaint_id.
Dates == {"2026-11-01"}
RandomPool == <<"A1B2C3", "ZZZZZZ", "000000", "Q7Q7Q7">>
RandomParts == {RandomPool[i] : i \in 1..Min(NumRandomParts, Len(RandomPool))}
GeneratedIds == {generate_complaint_id(d, r) : d \in Dates, r \in RandomParts}

\* IDs a caller may name: the generated ones and one that is no complaint ID.
CallerIds == GeneratedIds \cup {"no-such-id"}

\* Records handed to save() directly: a well-formed one, at several places of
\* the lifecycle ...
SampleIds == {CHOOSE id \in GeneratedIds : TRUE}
SampleStatuses == {"new", "in_progress", "closed"}

sample_record(complaint_id, status) ==
    [blank_complaint(complaint_id, 0, None, SampleReport)
     EXCEPT !.status = status, !.primary_category = "bug",
            !.severity = "high", !.confidence = 65]

WellFormedRecords ==
    {sample_record(id, status) : id \in SampleIds, status \in SampleStatuses}

Without(d, key) == [k \in DOMAIN d \ {key} |-> d[k]]

\* ... and the ways a record can be ill-formed.
IllFormedRecords ==
    LET ill_formed(ok) ==
            {Without(ok, REQUIRED_FIELDS[i]) : i \in DOMAIN REQUIRED_FIELDS}
            \cup {[ok EXCEPT !.complaint_id = bad] :
                    bad \in {"CMP-2026-11-01-a1b2c3", "CMP-2026-11-1-A1B2C3",
                             "XCMP-2026-11-01-A1B2C3", "CMP-2026-11-01-A1B2C3X",
                             "CMP-2026-11-01-A1B2C", None}}
            \cup {[ok EXCEPT !.status = v] : v \in {"done", None}}
            \cup {[ok EXCEPT !.primary_category = v] : v \in {"spam", None}}
            \cup {[ok EXCEPT !.severity = v] : v \in {"urgent", None}}
            \cup {[ok EXCEPT !.confidence = v] : v \in {0 - 1, 101}}
    IN  UNION {ill_formed(sample_record(id, "new")) : id \in SampleIds}

SaveInputs == WellFormedRecords \cup IllFormedRecords

\* update()'s `updates` argument: sequences of <<key, value>> pairs.
UpdateInputs ==
    {<< <<"primary_category", "performance">>, <<"severity", "critical">> >>,
     << <<"status", "clustered">> >>,
     << <<"status", "archived">> >>,
     << <<"audit_trail", <<>> >> >>}
    \cup {<< <<"complaint_id", id>> >> : id \in GeneratedIds}

\* update_status()'s new_status argument: every status and a word that is none.
StatusInputs == Range(VALID_STATUSES) \cup {"archived"}

Notes == {"", "Issue recurred"}

\* The write of a call that fails, and how.
Faults ==
    {NoFault} \cup {[fail_at |-> k, mode |-> m] :
                        k \in 1..MaxWritesPerCall, m \in {"open", "write"}}

\* ------------------------------------------------------------- the state

VARIABLES
    files,      \* the complaint files of the data directory: path -> file
    idx,        \* the index files of the data directory: name -> file
    sys,        \* the ComplaintSystem instances: their storage's in-memory
                \* indices, their conversation, their mode
    now,        \* the wall clock
    nfaults,    \* the file writes that have failed so far
    last        \* the last call: its name, whether the ID it named had a
                \* loadable record, its answer, whether it raised

vars == <<files, idx, sys, now, nfaults, last>>

Systems == {"A", "B"}

\* ComplaintSystem.__init__ over the data directory as it is.
new_system(index_files) ==
    [alive |-> TRUE,
     storage |-> load_indices(index_files),
     conversation |-> IdleConversation,
     mode |-> "normal"]

NotConstructed ==
    [alive |-> FALSE,
     storage |-> load_indices(EmptyDict),
     conversation |-> IdleConversation,
     mode |-> "normal"]

\* The world of a call on system s, with the fault the environment holds for it.
World(s, fault) ==
    Enter([files |-> files, idx |-> idx, mem |-> sys[s].storage,
           io |-> [writes |-> 0]], fault)

Call(op, found, ret, raised) ==
    [op |-> op, found |-> found, ret |-> ret, raised |-> raised]

Init ==
    /\ files = EmptyDict
    /\ idx = EmptyDict
    /\ sys = [s \in Systems |-> IF s = "A" THEN new_system(EmptyDict)
                                ELSE NotConstructed]
    /\ now = 1
    /\ nfaults = 0
    /\ last = Call("init", FALSE, TRUE, FALSE)

\* A call is possible on a constructed system; a fault only while the
\* environment has one left.
Callable(s, fault) ==
    /\ sys[s].alive
    /\ fault # NoFault => nfaults < MaxFaults

\* A fault is offered only to a call that reaches the write it names.
Reaches(r, fault) == fault = NoFault \/ r.w.io.failed

\* The effect of a storage call with outcome r on system s, the call naming
\* complaint_id.  The clock moves when the call read it.
Commit(s, r, fault, op, complaint_id, ticks) ==
    /\ Reaches(r, fault)
    /\ files' = r.w.files
    /\ idx' = r.w.idx
    /\ sys' = [sys EXCEPT ![s].storage = r.w.mem]
    /\ now' = IF ticks THEN now + 1 ELSE now
    /\ nfaults' = IF r.w.io.failed THEN nfaults + 1 ELSE nfaults
    /\ last' = Call(op, loadable(files, complaint_id), r.ret, r.raised)

\* The effect of a call that goes through update_status: it read the clock
\* when it got as far as the audit entry.
CommitStatusChange(s, r, fault, op, complaint_id) ==
    Commit(s, r, fault, op, complaint_id, r.w.mem # sys[s].storage \/ r.ret)

\* The effect of quick_file_complaint, which answers the record it built.
CommitFiling(s, q, fault, complaint_id) ==
    Commit(s, Result(q.w, q.ret), fault, "quick_file_complaint", complaint_id,
           TRUE)

\* The effect of continue_conversation; `ret` is whether the answer completed
\* the intake and the record was saved.
CommitConversation(s, c, fault) ==
    /\ Reaches(c, fault)
    /\ files' = c.w.files
    /\ idx' = c.w.idx
    /\ sys' = [sys EXCEPT ![s] = [c.sys EXCEPT !.storage = c.w.mem]]
    /\ now' = IF c.filed THEN now + 1 ELSE now
    /\ nfaults' = IF c.w.io.failed THEN nfaults + 1 ELSE nfaults
    /\ last' = Call("continue_conversation",
                    c.filed /\ loadable(files, c.id), c.saved, FALSE)

\* ----------------------------------------------------------- the actions

\* A new process: ComplaintSystem(data_dir) reads the three index files.
Construct(s) ==
    /\ \A f \in {"by_category.json", "by_severity.json", "by_status.json"} :
            index_readable(idx, f)
    /\ sys' = [sys EXCEPT ![s] = new_system(idx)]
    /\ last' = Call("construct", FALSE, TRUE, FALSE)
    /\ UNCHANGED <<files, idx, now, nfaults>>

Save(s, fault) ==
    /\ Callable(s, fault)
    /\ \E d \in SaveInputs :
        Commit(s, save(World(s, fault), d), fault, "save",
               Str(Get(d, "complaint_id", None)), FALSE)

Update(s, fault) ==
    /\ Callable(s, fault)
    /\ now < MaxClock
    /\ \E id \in CallerIds, u \in UpdateInputs :
        Commit(s, update(World(s, fault), id, u, now), fault, "update", id,
               loadable(files, id))

UpdateStatus(s, fault) ==
    /\ Callable(s, fault)
    /\ now < MaxClock
    /\ \E id \in CallerIds, new_status \in StatusInputs :
        CommitStatusChange(s,
            update_complaint_status(World(s, fault), id, new_status, now),
            fault, "update_status", id)

ResolveComplaint(s, fault) ==
    /\ Callable(s, fault)
    /\ now < MaxClock
    /\ \E id \in CallerIds, resolution \in Notes :
        CommitStatusChange(s,
            resolve_complaint(World(s, fault), id, resolution, now),
            fault, "resolve_complaint", id)

CloseComplaint(s, fault) ==
    /\ Callable(s, fault)
    /\ now < MaxClock
    /\ \E id \in CallerIds :
        CommitStatusChange(s, close_complaint(World(s, fault), id, now),
                           fault, "close_complaint", id)

ReopenComplaint(s, fault) ==
    /\ Callable(s, fault)
    /\ now < MaxClock
    /\ \E id \in CallerIds, reason \in Notes :
        CommitStatusChange(s,
            reopen_complaint(World(s, fault), id, reason, now),
            fault, "reopen_complaint", id)

QuickFileComplaint(s, fault) ==
    /\ Callable(s, fault)
    /\ now < MaxClock
    /\ \E report \in Reports, id \in GeneratedIds :
        CommitFiling(s, quick_file_complaint(World(s, fault), report, id, now),
                     fault, id)

StartComplaintIntake(s) ==
    /\ sys[s].alive
    /\ now < MaxClock
    /\ \E message \in IntakeMessages, id \in GeneratedIds :
        sys' = [sys EXCEPT ![s] = start_complaint_intake(sys[s], message, id, now)]
    /\ now' = now + 1
    /\ last' = Call("start_complaint_intake", FALSE, TRUE, FALSE)
    /\ UNCHANGED <<files, idx, nfaults>>

ContinueConversation(s, fault) ==
    /\ Callable(s, fault)
    /\ now < MaxClock
    /\ \E answer \in IntakeAnswers :
        CommitConversation(s,
            continue_conversation(World(s, fault), sys[s], answer, now), fault)

\* One ComplaintSystem over the data directory, every write succeeding.
Next ==
    \/ Save("A", NoFault)
    \/ Update("A", NoFault)
    \/ UpdateStatus("A", NoFault)
    \/ ResolveComplaint("A", NoFault)
    \/ CloseComplaint("A", NoFault)
    \/ ReopenComplaint("A", NoFault)
    \/ QuickFileComplaint("A", NoFault)
    \/ StartComplaintIntake("A")
    \/ ContinueConversation("A", NoFault)

Spec == Init /\ [][Next]_vars

\* One ComplaintStorage used directly: save, update and update_status.
NextStore ==
    \/ Save("A", NoFault)
    \/ Update("A", NoFault)
    \/ UpdateStatus("A", NoFault)

SpecStore == Init /\ [][NextStore]_vars

\* One ComplaintSystem whose records all come from filing: no record is
\* handed to save() directly.
NextSystem ==
    \/ QuickFileComplaint("A", NoFault)
    \/ StartComplaintIntake("A")
    \/ ContinueConversation("A", NoFault)
    \/ Update("A", NoFault)
    \/ UpdateStatus("A", NoFault)
    \/ ResolveComplaint("A", NoFault)
    \/ CloseComplaint("A", NoFault)
    \/ ReopenComplaint("A", NoFault)

SpecSystem == Init /\ [][NextSystem]_vars

\* One ComplaintStorage used directly, a write of a call failing now and
\* then, and the process starting anew over the directory as it is.
NextIO ==
    \E fault \in Faults :
        \/ Save("A", fault)
        \/ UpdateStatus("A", fault)
        \/ Construct("A")

SpecIO == Init /\ [][NextIO]_vars

\* Two ComplaintSystem instances over one data directory: B is constructed
\* at any moment, before or after A files, and either files and moves records.
NextShared ==
    \/ Construct("B")
    \/ QuickFileComplaint("A", NoFault)
    \/ QuickFileComplaint("B", NoFault)
    \/ UpdateStatus("A", NoFault)
    \/ UpdateStatus("B", NoFault)
    \/ ResolveComplaint("B", NoFault)
    \/ CloseComplaint("B", NoFault)
    \/ ReopenComplaint("B", NoFault)

SpecShared == Init /\ [][NextShared]_vars

\* ----------------------------------------- the classifier, called directly

\* The calls made on the classifier: the function and the record (or the
\* texts) it is given.
ClassifierCalls ==
    LET Asked(fn, args) ==
            [op |-> "call", fn |-> fn, args |-> args, found |-> FALSE,
             ret |-> None, raised |-> FALSE]
        RoutingInputs ==
            {[severity |-> s, primary_category |-> c,
              probable_root_causes |-> rc, frequency |-> f] :
                s \in Range(VALID_SEVERITIES), c \in Range(VALID_CATEGORIES),
                rc \in {<<"unknown">>, <<"constraint_parsing_failure">>,
                        <<"context_overload">>,
                        <<"context_overload", "constraint_parsing_failure">>},
                f \in {"once", "intermittent", "persistent", "unknown"}}
        ClassifyInputs ==
            Reports
            \cup {[user_summary |-> "Complete data loss - all my work is gone",
                   user_intent |-> "Save my project before deadline",
                   observed_outcome |->
                        "System crashed and deleted everything, completely unusable",
                   expected_outcome |-> "Work should be saved automatically",
                   frequency |-> "persistent"],
                  [user_summary |->
                        "AI ignored my constraint and the tool is unusable",
                   user_intent |-> "Append a paragraph",
                   observed_outcome |-> "It overwrote the whole document",
                   expected_outcome |-> "The paragraph at the end",
                   frequency |-> "persistent"],
                  [user_summary |-> "Please add dark mode",
                   user_intent |-> "Read at night",
                   observed_outcome |-> "No dark theme is offered",
                   expected_outcome |-> "A dark theme",
                   frequency |-> "once"]}
        SeverityInputs ==
            {[user_summary |-> "", user_intent |-> "", observed_outcome |-> o,
              frequency |-> f, primary_category |-> c] :
                o \in {"", "A minor glitch", "It is annoying",
                       "It is often annoying", "It never loads",
                       "This is URGENT", "It never loads, annoying",
                       "My job depends on it", "I can't work",
                       "A small, slight glitch, occasionally",
                       "A minor but annoying glitch"},
                f \in {"once", "intermittent", "persistent", "unknown"},
                c \in {"bug", "trust_safety", "other"}}
        TextsByLength ==
            {None, "", "short", "twenty characters ok", "this one has 21 chars"}
        ConfidenceInputs ==
            {[user_intent |-> i, observed_outcome |-> o, context |-> c,
              primary_category |-> p, secondary_categories |-> sec] :
                i \in TextsByLength, o \in TextsByLength,
                c \in {None, "", "In the editor"}, p \in {"other", "bug"},
                sec \in {<<>>, <<"ux_ui">>}}
        CategoryInputs ==
            {[complaint_text |-> c, user_intent |-> i, observed_outcome |-> o] :
                c \in {"Hello there", "The app crashed", "Crash, then it was slow",
                       "Slow and confusing", "Slow, timeout, one crash",
                       "It replaced my text", "I need it to replace text",
                       "Crash, error, failed: I want a fix",
                       "Crash, error, failed, please add a fix",
                       "Privacy concern: it is unclear and confusing"},
                i \in {"", "I want it fixed"},
                o \in {"", "It was slow"}}
        EarlierClassifications ==
            {[primary_category |-> None, secondary_categories |-> <<>>,
              severity |-> None, severity_basis |-> <<>>,
              probable_root_causes |-> <<>>, routing_target |-> None,
              suggested_fix |-> None, confidence |-> 0],
             [primary_category |-> "trust_safety",
              secondary_categories |-> <<"performance", "ux_ui">>,
              severity |-> "critical",
              severity_basis |-> <<"frequency: persistent">>,
              probable_root_causes |-> <<"constraint_parsing_failure">>,
              routing_target |-> "safety_escalation",
              suggested_fix |-> "Review policy application logic",
              confidence |-> 100],
             [primary_category |-> "feature_request",
              secondary_categories |-> <<>>,
              severity |-> "low", severity_basis |-> <<"default assessment">>,
              probable_root_causes |-> <<"unknown">>,
              routing_target |-> "product_backlog",
              suggested_fix |-> "Requires manual investigation and review",
              confidence |-> 65]}
        Holding(r, c) ==
            [r EXCEPT !.primary_category = c.primary_category,
                      !.secondary_categories = c.secondary_categories,
                      !.severity = c.severity,
                      !.severity_basis = c.severity_basis,
                      !.probable_root_causes = c.probable_root_causes,
                      !.routing_target = c.routing_target,
                      !.suggested_fix = c.suggested_fix,
                      !.confidence = c.confidence]
        RootCauseInputs ==
            {[user_summary |-> said[1], user_intent |-> said[2],
              observed_outcome |-> said[3], context |-> context] :
                said \in {<<"", "", "">>,
                          <<"unknown", "Nothing special", "It works">>,
                          <<"Export fails", "Export", "It crashed with an error">>,
                          <<"It REFUSED", "Get an answer", "It was overly cautious">>,
                          <<"Slow", "It forgot earlier text", "Then a crash">>,
                          <<"Chat", "It was a long", "conversation about nothing">>,
                          <<"Lost", "Where is the menu", "I can't find it">>},
                context \in {None, "", "A Long Conversation", "It failed twice"}}
    IN  {Asked("suggest_routing", d) : d \in RoutingInputs}
        \cup {Asked("classify_category", d) : d \in CategoryInputs}
        \cup {Asked("calculate_confidence", d) : d \in ConfidenceInputs}
        \cup {Asked("calculate_severity", d) : d \in SeverityInputs}
        \cup {Asked("identify_root_causes", d) : d \in RootCauseInputs}
        \cup {Asked("classify_full",
                    Holding(blank_complaint(id, 0, format_timestamp(0), said),
                            before)) :
                    id \in SampleIds, said \in ClassifyInputs,
                    before \in EarlierClassifications}

\* A classifier call is about to be made.
InitClassifier ==
    /\ files = EmptyDict
    /\ idx = EmptyDict
    /\ sys = [s \in Systems |-> NotConstructed]
    /\ now = 1
    /\ nfaults = 0
    /\ last \in ClassifierCalls

\* The call that is pending is made and answers ret.
Answer(fn, ret) ==
    /\ last.op = "call"
    /\ last.fn = fn
    /\ last' = [last EXCEPT !.op = fn, !.ret = ret]
    /\ UNCHANGED <<files, idx, sys, now, nfaults>>

SuggestRouting == Answer("suggest_routing", suggest_routing(last.args))

ClassifyFull == Answer("classify_full", classify_full(last.args))

CalculateSeverity == Answer("calculate_severity", calculate_severity(last.args))

IdentifyRootCauses ==
    Answer("identify_root_causes", identify_root_causes(last.args))

CalculateConfidence ==
    Answer("calculate_confidence", calculate_confidence(last.args))

ClassifyCategory ==
    Answer("classify_category",
           classify_category(last.args.complaint_text, last.args.user_intent,
                             last.args.observed_outcome))

NextClassifier ==
    \/ SuggestRouting
    \/ ClassifyCategory
    \/ CalculateConfidence
    \/ CalculateSeverity
    \/ IdentifyRootCauses
    \/ ClassifyFull

SpecClassifier == InitClassifier /\ [][NextClassifier]_vars

\* ----------------------------------------------------------- the claims

\* The stored record of an ID, for the IDs that have one.
Stored(id) == loadable(files, id)

Record(id) == load(files, id)

\* The storage of system A as a call finds it, and update_status called on it.
Store == World("A", NoFault)

\* The edges the lifecycle graph declares, as pairs.
DeclaredEdge(from, to) ==
    /\ from \in DOMAIN VALID_STATUS_TRANSITIONS
    /\ \E i \in DOMAIN VALID_STATUS_TRANSITIONS[from] :
            VALID_STATUS_TRANSITIONS[from][i] = to

\* C1: for every stored record and every target status, update_status
\* answers True exactly when the target is the record's current status or a
\* declared edge from it, and the call leaves the record with the target as
\* its status when it answers True and with its old status when it answers
\* False: no call moves a record along an edge that is not declared.
C1_AcceptedIffDeclaredEdge ==
    \A id \in CallerIds, target \in StatusInputs :
        Stored(id) =>
            LET current == Record(id).status
                r == update_status(Store, id, target, now)
                after == load(r.w.files, id).status
            IN  /\ ~r.raised
                /\ r.ret <=> (target = current \/ DeclaredEdge(current, target))
                /\ loadable(r.w.files, id)
                /\ after = IF r.ret THEN target ELSE current
                /\ after = current \/ DeclaredEdge(current, after)

\* An update_status call on a stored record was accepted and moved it along
\* the declared edge in_progress -> awaiting_user; from there a third status
\* is refused.
C1_Witness ==
    /\ last = Call("update_status", TRUE, TRUE, FALSE)
    /\ \E id \in GeneratedIds :
        /\ Stored(id)
        /\ Record(id).status = "awaiting_user"
        /\ Record(id).audit_trail[Len(Record(id).audit_trail)].action
                = "Status changed: in_progress -> awaiting_user"
        /\ ~update_status(Store, id, "closed", now).ret

\* C2: when update_status rejects a transition (the record exists, the
\* target is neither its current status nor a declared edge from it), it
\* answers False, and the record files, the three index files and the three
\* in-memory indices are what they were before the call.
C2_RejectionChangesNothing ==
    \A id \in CallerIds, target \in StatusInputs :
        (/\ Stored(id)
         /\ target # Record(id).status
         /\ ~DeclaredEdge(Record(id).status, target)) =>
            LET r == update_status(Store, id, target, now)
            IN  /\ r.ret = FALSE
                /\ ~r.raised
                /\ r.w.files = files
                /\ r.w.idx = idx
                /\ r.w.mem = sys["A"].storage
                /\ r.w.io.writes = 0

\* An update_status call on a stored record has just been refused, and the
\* record's status has no edge to at least one of the ten statuses.
C2_Witness ==
    /\ last = Call("update_status", TRUE, FALSE, FALSE)
    /\ \E id \in GeneratedIds :
        /\ Stored(id)
        /\ \E target \in Range(VALID_STATUSES) :
            /\ target # Record(id).status
            /\ ~DeclaredEdge(Record(id).status, target)
            /\ ~update_status(Store, id, target, now).ret

\* The ten nodes of the lifecycle graph: the statuses an edge leaves or enters.
LifecycleNodes ==
    DOMAIN VALID_STATUS_TRANSITIONS
    \cup UNION {Range(VALID_STATUS_TRANSITIONS[from]) :
                    from \in DOMAIN VALID_STATUS_TRANSITIONS}

\* C3: after any sequence of save, update, update_status, resolve_complaint,
\* close_complaint, reopen_complaint and filing operations, every record file
\* that load can read holds a record whose status is one of the ten nodes of
\* the lifecycle graph.
C3_StatusIsLifecycleNode ==
    /\ Cardinality(LifecycleNodes) = 10
    /\ \A path \in DOMAIN files :
        files[path].kind = "json" =>
            LET d == json_load(files[path].doc)
            IN  "status" \in DOMAIN d /\ d.status \in LifecycleNodes

\* An update that would have stored a status outside the graph was refused
\* on a record that an earlier update had put into status clustered.
C3_Witness ==
    /\ last = Call("update", TRUE, FALSE, FALSE)
    /\ \E id \in GeneratedIds : Stored(id) /\ Record(id).status = "clustered"

\* An ID is listed under value v of an in-memory index.
Listed(index, v, id) == v \in DOMAIN index /\ id \in Range(index[v])

\* C4: after any sequence of save, update and update_status operations on one
\* store instance each in-memory index is an exact inverted mapping: an ID is
\* listed under category (severity, status) v exactly when the stored record
\* of that ID has primary_category (severity, status) v.
C4_IndexIsExactInverse ==
    LET mem == sys["A"].storage
    IN  \A id \in GeneratedIds :
            /\ \A v \in Range(VALID_CATEGORIES) :
                Listed(mem.category_index, v, id)
                    <=> (Stored(id) /\ Record(id).primary_category = v)
            /\ \A v \in Range(VALID_SEVERITIES) :
                Listed(mem.severity_index, v, id)
                    <=> (Stored(id) /\ Record(id).severity = v)
            /\ \A v \in Range(VALID_STATUSES) :
                Listed(mem.status_index, v, id)
                    <=> (Stored(id) /\ Record(id).status = v)

\* The nine required fields are there and the ID, the three enumerations and
\* the confidence range are as the schema asks.
MeetsSchema(d) ==
    /\ {"complaint_id", "reported_at", "status", "primary_category", "severity",
        "user_intent", "observed_outcome", "expected_outcome", "confidence"}
            \subseteq DOMAIN d
    /\ matches_id_regex(d.complaint_id)
    /\ d.status \in {"new", "triaged", "structured", "clustered", "routed",
                     "in_progress", "awaiting_user", "resolved", "closed",
                     "reopened"}
    /\ d.primary_category \in {"bug", "model_behavior", "ux_ui", "feature_request",
                               "policy_friction", "performance", "trust_safety",
                               "misunderstanding", "other"}
    /\ d.severity \in {"low", "medium", "high", "critical"}
    /\ d.confidence \in 0..100

\* C7: save answers True only for a record that has the nine required fields
\* and passes the ID, status, category, severity and confidence checks; for
\* any other record it answers False and leaves the record files, the index
\* files and the in-memory indices as they were.
C7_SaveRefusesIllFormed ==
    \A d \in SaveInputs :
        LET r == save(Store, d)
        IN  /\ r.ret => MeetsSchema(d)
            /\ ~MeetsSchema(d) =>
                /\ r.ret = FALSE
                /\ r.w.files = files
                /\ r.w.idx = idx
                /\ r.w.mem = sys["A"].storage

\* A save naming a stored record has just been refused, where the pool holds
\* records failing each of the checks.
C7_Witness ==
    /\ last = Call("save", TRUE, FALSE, FALSE)
    /\ \E d \in SaveInputs : "status" \notin DOMAIN d
    /\ \E d \in SaveInputs : MeetsSchema(d) /\ save(Store, d).ret

\* C8: for every record r that save accepts, load of r's ID right after the
\* save answers a record equal to r in every field, the audit trail with its
\* length and order among them.  The records are those handed to save
\* directly, those a quick filing builds, and every stored record with one
\* more audit entry.
C8_SaveLoadRoundTrip ==
    LET filed == {quick_file_complaint(Store, report, id, now).filed :
                        report \in Reports, id \in GeneratedIds}
        grown == {add_audit_entry(Record(id), "user", "Reopened: Issue recurred",
                                  now) : id \in {i \in GeneratedIds : Stored(i)}}
    IN  \A d \in SaveInputs \cup filed \cup grown :
            LET r == save(Store, d)
            IN  r.ret =>
                    /\ loadable(r.w.files, d.complaint_id)
                    /\ load(r.w.files, d.complaint_id) = d

\* A filing has just saved its record, and load answers it with the whole
\* audit trail the filing built.
C8_Witness ==
    /\ last = Call("quick_file_complaint", FALSE, TRUE, FALSE)
    /\ \E id \in GeneratedIds, report \in Reports :
        /\ Stored(id)
        /\ Record(id).status = "routed"
        /\ Len(Record(id).audit_trail) = 1
        /\ Record(id).severity_basis # <<>>
        /\ Record(id).user_summary = report.user_summary

\* C5: save is all-or-nothing: a save that answers False, whether validation
\* refused the record, the record write failed or an index write failed,
\* leaves every record file and each of the three index files as it was
\* before the call.
C5_FailedSaveChangesNoFile ==
    [][(last'.op = "save" /\ last'.ret = FALSE) => (files' = files /\ idx' = idx)]_vars

\* The second file write of an update_status call that passed the transition
\* check is the record write: the status index file is written first.
RecordWriteFails(mode) == [fail_at |-> 2, mode |-> mode]

\* C6: when update_status has passed the transition check and the record
\* write fails, it answers False and no status-index change is committed:
\* the in-memory status index and the one on disk still list the ID under
\* the old status and do not list it under the new one.
C6_FailedRecordWriteKeepsStatusIndex ==
    \A id \in GeneratedIds, target \in StatusInputs, mode \in {"open", "write"} :
        LET old == Record(id).status
            before == load_index(idx, "by_status.json")
            r == update_status(World("A", RecordWriteFails(mode)), id, target, now)
            after == load_index(r.w.idx, "by_status.json")
        IN  (/\ Stored(id)
             /\ DeclaredEdge(old, target)
             /\ Listed(sys["A"].storage.status_index, old, id)
             /\ ~Listed(sys["A"].storage.status_index, target, id)
             /\ Listed(before, old, id)
             /\ ~Listed(before, target, id)) =>
                /\ r.ret = FALSE
                /\ Listed(r.w.mem.status_index, old, id)
                /\ ~Listed(r.w.mem.status_index, target, id)
                /\ Listed(after, old, id)
                /\ ~Listed(after, target, id)

\* C9: record IDs are never reused: every filing, by quick_file_complaint or
\* by the answer that completes an intake, is given an ID that no stored
\* record has, so a filing never overwrites a record file.
C9_FilingNeverReusesAnId ==
    (\/ last.op = "quick_file_complaint"
     \/ last.op = "continue_conversation" /\ last.ret) => ~last.found

IsPrefix(a, b) == Len(a) <= Len(b) /\ SubSeq(b, 1, Len(a)) = a

\* A filing that was given the ID of a stored record (the case of C9).
FiledOverStored(call) ==
    /\ call.op \in {"quick_file_complaint", "continue_conversation"}
    /\ call.found

\* C10: the audit trail of a stored record is append-only: over every step of
\* filing, update, update_status, resolve_complaint, close_complaint and
\* reopen_complaint, each stored ID keeps a record, and the trail load
\* answered before the step is a prefix of the one it answers after.  Steps
\* in which a filing reuses a stored ID are left aside here: they are the
\* subject of C9.
C10_AuditTrailIsAppendOnly ==
    [][~FiledOverStored(last') =>
        \A id \in GeneratedIds :
            loadable(files, id) =>
                /\ loadable(files', id)
                /\ IsPrefix(load(files, id).audit_trail,
                            load(files', id).audit_trail)]_vars

\* C11: every accepted update_status call on a stored record leaves the
\* record with its audit trail one entry longer, the entries it had kept in
\* place, and the new entry, by the system, naming the status the record had
\* and the status it was given.
C11_AcceptedAppendsOneEntry ==
    \A id \in CallerIds, target \in StatusInputs :
        Stored(id) =>
            LET before == Record(id)
                r == update_status(Store, id, target, now)
                trail == load(r.w.files, id).audit_trail
            IN  r.ret =>
                    /\ loadable(r.w.files, id)
                    /\ Len(trail) = Len(before.audit_trail) + 1
                    /\ IsPrefix(before.audit_trail, trail)
                    /\ trail[Len(trail)].actor = "system"
                    /\ trail[Len(trail)].action =
                            "Status changed: " \o before.status \o " -> " \o target
                    /\ load(r.w.files, id).status = target

\* Two update_status calls were accepted on one record: its trail holds the
\* entry of each, in order.
C11_Witness ==
    /\ last = Call("update_status", TRUE, TRUE, FALSE)
    /\ \E id \in GeneratedIds :
        /\ Stored(id)
        /\ Record(id).status = "structured"
        /\ Len(Record(id).audit_trail) = 2
        /\ Record(id).audit_trail[1].action = "Status changed: new -> triaged"
        /\ Record(id).audit_trail[2].action
                = "Status changed: triaged -> structured"

\* C12: update_status on a stored record with its current status as the
\* target answers True and is a no-op: the stored record, the index files
\* and the in-memory indices are what they were before the call, and calling
\* twice leaves the stored state that calling once leaves.
C12_SameStatusIsNoOp ==
    \A id \in GeneratedIds :
        Stored(id) =>
            LET once == update_status(Store, id, Record(id).status, now)
                twice == update_status(Enter(once.w, NoFault), id,
                                       Record(id).status, now + 1)
            IN  /\ once.ret
                /\ twice.ret
                /\ load(once.w.files, id) = Record(id)
                /\ once.w.idx = idx
                /\ once.w.mem = sys["A"].storage
                /\ twice.w.files = once.w.files
                /\ twice.w.idx = once.w.idx
                /\ twice.w.mem = once.w.mem

\* The record of an ID can be brought to status triaged by update_status
\* calls, each accepted and each to a status the record has not had on the
\* way.
RECURSIVE ReachesTriaged(_, _, _, _)
ReachesTriaged(w, id, t, visited) ==
    \/ load(w.files, id).status = "triaged"
    \/ \E target \in LifecycleNodes \ visited :
            LET r == update_status(Enter(w, NoFault), id, target, t)
            IN  r.ret /\ ReachesTriaged(r.w, id, t + 1, visited \cup {target})

\* C13: a record stored with any of the ten lifecycle statuses can be
\* brought to status triaged by a finite sequence of accepted update_status
\* calls, whatever the store held before.
C13_TriagedReachableFromEveryStatus ==
    \A id \in GeneratedIds, status \in LifecycleNodes :
        LET stored == save(Store, sample_record(id, status))
        IN  /\ stored.ret
            /\ ReachesTriaged(stored.w, id, now, {status})

\* A record saved as closed was brought to triaged by two accepted
\* update_status calls, closed -> reopened -> triaged.
C13_Witness ==
    /\ last = Call("update_status", TRUE, TRUE, FALSE)
    /\ \E id \in GeneratedIds :
        /\ Stored(id)
        /\ Record(id).status = "triaged"
        /\ Len(Record(id).audit_trail) = 2
        /\ Record(id).audit_trail[1].action = "Status changed: closed -> reopened"
        /\ Record(id).audit_trail[2].action = "Status changed: reopened -> triaged"

\* C14: no operation of the store or of the ComplaintSystem deletes a
\* record: a record file that load can read before a call is one that load
\* can read after it.
C14_RecordsAreNeverDeleted ==
    [][\A path \in DOMAIN files :
            files[path].kind = "json" =>
                /\ path \in DOMAIN files'
                /\ files'[path].kind = "json"]_vars

\* A closed record was reopened, and load still answers it.
C14_Witness ==
    /\ last = Call("reopen_complaint", TRUE, TRUE, FALSE)
    /\ \E id \in GeneratedIds : Stored(id) /\ Record(id).status = "reopened"

\* A call answered False and left the record files, the index files and the
\* in-memory indices as they were, without starting a write.
ShortCircuits(r) ==
    /\ r.ret = FALSE
    /\ ~r.raised
    /\ r.w.files = files
    /\ r.w.idx = idx
    /\ r.w.mem = sys["A"].storage
    /\ r.w.io.writes = 0

\* C15: for an ID with no stored record (load answers None), update,
\* update_status, resolve_complaint, close_complaint and reopen_complaint
\* each answer False, create no record file and change no index.
C15_UnknownIdShortCircuits ==
    \A id \in CallerIds :
        ~Stored(id) =>
            /\ \A u \in UpdateInputs : ShortCircuits(update(Store, id, u, now))
            /\ \A target \in StatusInputs :
                    ShortCircuits(update_status(Store, id, target, now))
            /\ \A note \in Notes :
                    /\ ShortCircuits(resolve_complaint(Store, id, note, now))
                    /\ ShortCircuits(reopen_complaint(Store, id, note, now))
            /\ ShortCircuits(close_complaint(Store, id, now))

\* A call has just named an ID with no stored record and answered False,
\* in a store that holds the record of another ID.
C15_Witness ==
    /\ last.op \in {"update", "update_status", "resolve_complaint",
                    "close_complaint", "reopen_complaint"}
    /\ last.found = FALSE
    /\ last.ret = FALSE
    /\ \E id \in GeneratedIds : Stored(id)
    /\ \E id \in CallerIds : ~Stored(id)

\* The nine routing rules in their order of priority, for one record, and
\* the target of the first of them that applies.
RoutingRules(d) ==
    <<[applies |-> d.severity = "critical", target |-> "human_review"],
      [applies |-> d.primary_category = "trust_safety"
                    /\ d.severity \in {"high", "critical"},
       target |-> "safety_escalation"],
      [applies |-> d.primary_category = "bug"
                    /\ d.severity \in {"high", "critical"},
       target |-> "human_review"],
      [applies |-> d.primary_category = "model_behavior"
                    /\ \E i \in DOMAIN d.probable_root_causes :
                        d.probable_root_causes[i] = "constraint_parsing_failure",
       target |-> "self_correction"],
      [applies |-> d.primary_category = "feature_request",
       target |-> "product_backlog"],
      [applies |-> d.primary_category = "misunderstanding"
                    /\ d.frequency = "persistent",
       target |-> "documentation_update"],
      [applies |-> d.primary_category = "performance"
                    /\ d.severity \in {"high", "critical"},
       target |-> "human_review"],
      [applies |-> d.primary_category = "model_behavior",
       target |-> "self_correction"],
      [applies |-> TRUE, target |-> "human_review"]>>

FirstApplying(rules) ==
    rules[CHOOSE i \in DOMAIN rules :
            rules[i].applies /\ \A j \in 1..(i - 1) : ~rules[j].applies].target

\* C16: for every severity, primary category, list of root causes and
\* frequency, suggest_routing answers the target of the first rule of the
\* nine-rule priority table that applies.
C16_RoutingIsFirstMatch ==
    last.op = "suggest_routing" =>
        last.ret = FirstApplying(RoutingRules(last.args))

\* suggest_routing was given a critical feature request, which rule 1 and
\* rule 5 both match, and answered the target of rule 1.
C16_Witness ==
    /\ last.op = "suggest_routing"
    /\ last.args.severity = "critical"
    /\ last.args.primary_category = "feature_request"
    /\ last.ret = "human_review"

\* C17: a record whose severity is critical is routed to human_review,
\* whatever its primary category and root causes: suggest_routing answers
\* human_review for it, and so does the routing_target classify_full sets.
C17_CriticalGoesToHumanReview ==
    /\ (last.op = "suggest_routing" /\ last.args.severity = "critical")
            => last.ret = "human_review"
    /\ (last.op = "classify_full" /\ last.ret.severity = "critical")
            => last.ret.routing_target = "human_review"

\* classify_full found a report critical, of category model_behavior and
\* with the root cause constraint_parsing_failure (rules 1 and 4 both
\* match), and routed it to human_review.
C17_Witness ==
    /\ last.op = "classify_full"
    /\ last.ret.severity = "critical"
    /\ last.ret.primary_category = "model_behavior"
    /\ last.ret.probable_root_causes = <<"constraint_parsing_failure">>
    /\ last.ret.routing_target = "human_review"

\* The score the severity is read from: 3, 2 and 1 for each critical, high
\* and medium keyword the text has, 2 for a persistent and 1 for an
\* intermittent frequency, 1 for a word of work, 1 for the categories bug
\* and trust_safety.
SeverityScore(d) ==
    LET text == Lower(d.user_summary \o " " \o d.user_intent \o " "
                      \o d.observed_outcome)
        matched(level) ==
            Cardinality({i \in DOMAIN SEVERITY_INDICATORS[level] :
                            Contains(text, SEVERITY_INDICATORS[level][i])})
    IN  3 * matched("critical") + 2 * matched("high") + matched("medium")
        + (IF d.frequency = "persistent" THEN 2
           ELSE IF d.frequency = "intermittent" THEN 1 ELSE 0)
        + (IF \E word \in {"job", "work", "business", "project"} :
                    Contains(text, word)
           THEN 1 ELSE 0)
        + (IF d.primary_category \in {"bug", "trust_safety"} THEN 1 ELSE 0)

\* C18: calculate_severity answers critical for a score of 4 or more, high
\* for a score of 3, medium for a score of 1 or 2 and low for a score of 0.
C18_SeverityThresholds ==
    last.op = "calculate_severity" =>
        LET score == SeverityScore(last.args)
        IN  /\ score >= 4 => last.ret.severity = "critical"
            /\ score = 3 => last.ret.severity = "high"
            /\ score \in {1, 2} => last.ret.severity = "medium"
            /\ score = 0 => last.ret.severity = "low"
            /\ score >= 0

\* calculate_severity was given a record whose score is exactly 4, one point
\* of it from the frequency, and answered critical.
C18_Witness ==
    /\ last.op = "calculate_severity"
    /\ SeverityScore(last.args) = 4
    /\ last.args.frequency = "intermittent"
    /\ last.ret.severity = "critical"

\* The bonuses of a record, in hundredths: 10 for an intent and 10 for an
\* observed outcome of more than 20 characters, 5 for a context, 15 for a
\* primary category other than `other`, 10 for secondary categories.
ConfidenceBonuses(d) ==
    <<IF d.user_intent \notin {None, ""} /\ Len(d.user_intent) > 20
      THEN 10 ELSE 0,
      IF d.observed_outcome \notin {None, ""} /\ Len(d.observed_outcome) > 20
      THEN 10 ELSE 0,
      IF d.context \notin {None, ""} THEN 5 ELSE 0,
      IF d.primary_category # "other" THEN 15 ELSE 0,
      IF Len(d.secondary_categories) > 0 THEN 10 ELSE 0>>

\* C19: for every record calculate_confidence answers a value between 0.5
\* and 1.0 (50 and 100 hundredths), the base 0.5 plus the bonuses that
\* apply, capped at 1.0; the confidence classify_full sets is in that range,
\* hence in the range validation requires.
C19_ConfidenceBounds ==
    /\ last.op = "calculate_confidence" =>
            /\ 50 <= last.ret /\ last.ret <= 100
            /\ last.ret = Min(50 + SumSeq(ConfidenceBonuses(last.args)), 100)
    /\ last.op = "classify_full" =>
            /\ 50 <= last.ret.confidence /\ last.ret.confidence <= 100
            /\ validate_complaint_schema(Put(last.ret, "status", "routed"))

\* calculate_confidence was given a record that earns every bonus and
\* answered 1.0.
C19_Witness ==
    /\ last.op = "calculate_confidence"
    /\ \A i \in 1..5 : ConfidenceBonuses(last.args)[i] > 0
    /\ last.ret = 100

\* The scores of the texts of a classify_category call, boosts included.
ScoresOf(a) ==
    category_scores(Lower(a.complaint_text \o " " \o a.user_intent \o " "
                          \o a.observed_outcome))

\* The categories that hold the maximum of the scores.
Leaders(scores) ==
    {c \in DOMAIN scores : \A other \in DOMAIN scores : scores[other] <= scores[c]}

\* The place of a category in the declaration order of the table.
Place(c) == CHOOSE i \in DOMAIN VALID_CATEGORIES : VALID_CATEGORIES[i] = c

\* C20: the primary category classify_category answers is `other` exactly
\* when every score is 0, and otherwise the category of maximum score (the
\* two boosts added) that comes first in the declaration order of the table.
C20_PrimaryIsFirstMaximum ==
    last.op = "classify_category" =>
        LET scores == ScoresOf(last.args)
        IN  /\ last.ret.primary = "other" <=> \A c \in DOMAIN scores : scores[c] = 0
            /\ (\E c \in DOMAIN scores : scores[c] > 0) =>
                    /\ last.ret.primary \in Leaders(scores)
                    /\ \A c \in Leaders(scores) : Place(last.ret.primary) <= Place(c)

\* classify_category was given texts on which bug and the boosted
\* feature_request tie for the maximum, and answered bug.
C20_Witness ==
    /\ last.op = "classify_category"
    /\ Leaders(ScoresOf(last.args)) = {"bug", "feature_request"}
    /\ ScoresOf(last.args).bug > 0
    /\ last.ret.primary = "bug"

\* C21: classify_full is deterministic and re-classification is idempotent.
\* Whatever classification a record held before, classify_full leaves the
\* eight classification fields that the field-by-field pass computes from its
\* narrative fields, context and frequency alone, it leaves the other fields
\* alone, and classifying its result again, by either route, changes nothing.
Classification(d) ==
    [primary_category |-> d.primary_category,
     secondary_categories |-> d.secondary_categories,
     severity |-> d.severity, severity_basis |-> d.severity_basis,
     probable_root_causes |-> d.probable_root_causes,
     routing_target |-> d.routing_target, suggested_fix |-> d.suggested_fix,
     confidence |-> d.confidence]

C21_ClassificationIgnoresEarlierOne ==
    last.op = "classify_full" =>
        /\ classify_reads(last.ret) = classify_reads(last.args)
        /\ Classification(last.ret)
             = Classification(classify_fields(unclassified(classify_reads(last.args))))
        /\ classify_fields(last.args) = last.ret
        /\ classify_fields(last.ret) = last.ret
        /\ classify_full(last.ret) = last.ret

C21_Witness ==
    /\ last.op = "classify_full"
    /\ last.args.primary_category = "trust_safety"
    /\ last.args.routing_target = "safety_escalation"
    /\ last.ret.primary_category = "feature_request"
    /\ last.ret.routing_target = "product_backlog"
    /\ classify_reads(last.args) \notin KnownReads

\* C22: after any sequence of save, update and update_status operations,
\* every ID that find_similar_complaints(r) returns differs from r's own ID
\* and names a stored record whose current primary_category is r's.
C22_SimilarAreOfTheSameCategory ==
    \A id \in GeneratedIds, category \in {"bug", "performance"} :
        LET r == [sample_record(id, "new") EXCEPT !.primary_category = category]
            similar == find_similar_complaints(Store, r)
        IN  \A i \in DOMAIN similar :
                /\ similar[i] # id
                /\ Stored(similar[i])
                /\ Record(similar[i]).primary_category = category

\* The records compared with the stored ones: no keyword at all, and one to
\* four keywords of which a stored record has one or two.
Newcomers ==
    {[sample_record(id, "new") EXCEPT !.primary_category = category,
                                      !.user_intent = said[1],
                                      !.observed_outcome = said[2]] :
        id \in SampleIds \cup {"CMP-2026-11-01-0F0F0F"},
        category \in {"bug", "model_behavior"},
        said \in {<<"Export the report as PDF", "Nothing happens">>,
                  <<"Upload a 500MB video file", "Browser froze and crashed">>,
                  <<"Export", "It crashed with an error">>,
                  <<"Export", "It crashed with an error and was slow">>,
                  <<"Export", "Crash, error, slow, timeout">>}}

KeywordsOf(d) ==
    extract_keywords(Str(Get(d, "user_intent", "")) \o " "
                     \o Str(Get(d, "observed_outcome", "")))

NewKeywords == [r \in Newcomers |-> KeywordsOf(r)]

\* The IDs of the records find_similar_complaints compares r with: those the
\* category bucket of r's category lists and that load, r's own ID left out.
Candidates(r) ==
    {c \in Range(Get(sys["A"].storage.category_index, r.primary_category, <<>>)) :
        loadable(files, c) /\ c # r.complaint_id}

\* C23: find_similar_complaints reports a candidate as similar if and only
\* if the new record's keyword set N is not empty and the candidate has at
\* least half of the keywords of N; when N is empty the result is empty.
C23_SimilarIffHalfOfNewKeywords ==
    LET ExistingKeywords ==
            [c \in {id \in GeneratedIds : Stored(id)} |-> KeywordsOf(Record(c))]
    IN  \A r \in Newcomers :
            LET similar == Range(find_similar_complaints(Store, r))
            IN  /\ similar \subseteq Candidates(r)
                /\ \A c \in Candidates(r) :
                    c \in similar
                        <=> /\ NewKeywords[r] # {}
                            /\ 2 * Cardinality(NewKeywords[r]
                                               \cap ExistingKeywords[c])
                                  >= Cardinality(NewKeywords[r])
                /\ NewKeywords[r] = {} => similar = {}

\* A candidate with one keyword is reported for a newcomer with two keywords,
\* that one among them, and not for a newcomer with three, that one among them.
C23_Witness ==
    \E r2 \in Newcomers, r3 \in Newcomers :
        \E c \in Candidates(r2) \cap Candidates(r3) :
            /\ Cardinality(KeywordsOf(Record(c))) = 1
            /\ KeywordsOf(Record(c)) \subseteq NewKeywords[r2] \cap NewKeywords[r3]
            /\ Cardinality(NewKeywords[r2]) = 2
            /\ Cardinality(NewKeywords[r3]) = 3
            /\ c \in Range(find_similar_complaints(Store, r2))
            /\ c \notin Range(find_similar_complaints(Store, r3))

\* What quick_file_complaint may be handed: texts with keywords of no
\* category, of one and of several, empty and blank texts, words of every
\* severity, and frequencies that are none of the known ones.
QuickFileInputs ==
    Reports
    \cup {[user_summary |-> said[1], user_intent |-> said[2],
           observed_outcome |-> said[3], expected_outcome |-> said[4],
           frequency |-> frequency] :
            said \in {<<"", "", "", "">>,
                      <<"  ", "\t", " \n ", " ">>,
                      <<"Test complaint", "Test the system", "System works",
                        "System works correctly">>,
                      <<"Privacy concern, data is unsafe", "I want my data back",
                        "It is slow, confusing and blocked", "None">>,
                      <<"URGENT: completely broken, unusable", "Do my job",
                        "It never works, I can't work", "It works">>},
            frequency \in {"once", "persistent", "", "every full moon"}}

\* C24: for every input the record quick_file_complaint returns passes
\* validate_complaint_schema: the required fields are there, the category,
\* the severity and the status are of the validated enumerations, the ID
\* matches the ID pattern and the confidence is between 0 and 1.
C24_QuickFiledRecordIsValid ==
    \A report \in QuickFileInputs, id \in GeneratedIds :
        LET filed == quick_file_complaint(Store, report, id, now).filed
        IN  /\ validate_complaint_schema(filed)
            /\ MeetsSchema(filed)
            /\ filed.status = "routed"
            /\ filed.frequency = report.frequency

C24_Witness ==
    /\ last = Call("quick_file_complaint", TRUE, TRUE, FALSE)
    /\ \E id \in GeneratedIds :
        /\ Stored(id)
        /\ Record(id).status = "routed"
        /\ validate_complaint_schema(Record(id))
    /\ \E report \in QuickFileInputs, id \in GeneratedIds :
        LET filed == quick_file_complaint(Store, report, id, now).filed
        IN  /\ report.frequency = "every full moon"
            /\ filed.primary_category = "other"
            /\ filed.related_complaints = <<>>
    /\ \E report \in QuickFileInputs, id \in GeneratedIds :
        LET filed == quick_file_complaint(Store, report, id, now).filed
        IN  /\ filed.severity = "critical"
            /\ filed.primary_category # "other"

\* The four calls of the lifecycle walk made in a row through instance s on
\* the record of id: what each answered and the status stored in the end.
Driven(s, id) ==
    LET r1 == update_complaint_status(World(s, NoFault), id, "in_progress", now)
        r2 == resolve_complaint(Enter(r1.w, NoFault), id,
                                "Fixed constraint parsing logic", now + 1)
        r3 == close_complaint(Enter(r2.w, NoFault), id, now + 2)
        r4 == reopen_complaint(Enter(r3.w, NoFault), id, "Issue recurred",
                               now + 3)
    IN  [answers |-> <<r1.ret, r2.ret, r3.ret, r4.ret>>,
         raised |-> {r1.raised, r2.raised, r3.raised, r4.raised},
         final |-> load(r4.w.files, id).status,
         trail |-> load(r4.w.files, id).audit_trail]

\* C25: a stored record of status routed can be driven through
\* update_complaint_status(in_progress), resolve_complaint, close_complaint
\* and reopen_complaint in that order, every call answering True and the
\* stored status being reopened in the end, through whichever constructed
\* instance the calls are made, one constructed before the record was filed
\* by another instance included.
C25_RoutedRecordWalksTheLifecycle ==
    \A s \in Systems, id \in GeneratedIds :
        (sys[s].alive /\ Stored(id) /\ Record(id).status = "routed")
            => /\ Driven(s, id).answers = <<TRUE, TRUE, TRUE, TRUE>>
               /\ Driven(s, id).raised = {FALSE}
               /\ Driven(s, id).final = "reopened"

\* Instance A has just filed a record that instance B, constructed earlier,
\* lists nowhere, and the walk through B ends in reopened.
C25_Witness ==
    /\ last.op = "quick_file_complaint"
    /\ sys["B"].alive
    /\ \E id \in GeneratedIds :
        /\ Stored(id)
        /\ Record(id).status = "routed"
        /\ Listed(sys["A"].storage.status_index, "routed", id)
        /\ \A v \in DOMAIN sys["B"].storage.status_index :
                ~Listed(sys["B"].storage.status_index, v, id)
        /\ Driven("B", id).final = "reopened"
        /\ Len(Driven("B", id).trail) = Len(Record(id).audit_trail) + 6

\* C26: get_statistics of a constructed instance reports as total_complaints
\* the number of distinct record IDs persisted in the data directory, records
\* filed through another instance after this one was constructed included.
C26_TotalCountsPersistedRecords ==
    \A s \in Systems :
        sys[s].alive
            => get_statistics(World(s, NoFault)).total_complaints
                = Cardinality({id \in GeneratedIds : Stored(id)})

\* The audit actions of the four status steps of a filing, as they begin.
StatusSteps ==
    <<"Complaint triaged", "Complaint structured and classified",
      "Clustered with ", "Routed to ">>

\* The trail has exactly one entry for each of the four steps, in their order.
OneEntryPerStep(trail) ==
    LET EntriesOf(step) ==
            {i \in DOMAIN trail :
                /\ Len(trail[i].action) >= Len(step)
                /\ SubSeq(trail[i].action, 1, Len(step)) = step}
    IN  /\ \A k \in DOMAIN StatusSteps :
            Cardinality(EntriesOf(StatusSteps[k])) = 1
        /\ \A k \in 1..(Len(StatusSteps) - 1) :
            \A i \in EntriesOf(StatusSteps[k]), j \in EntriesOf(StatusSteps[k + 1]) :
                i < j

\* C27: every record a filing operation persists (the interactive intake or
\* quick_file_complaint) is routed and came there from new by the declared
\* edges new -> triaged -> structured -> clustered -> routed, its audit trail
\* holding one entry for each of the four steps, in that order.
C27_FiledAlongTheDeclaredEdges ==
    [][last'.op \in {"quick_file_complaint", "continue_conversation"}
        => \A id \in GeneratedIds :
            (loadable(files', id) /\ (Stored(id) => load(files', id) # Record(id)))
                => /\ load(files', id).status = "routed"
                   /\ OneEntryPerStep(load(files', id).audit_trail)]_vars

\* No bucket of the three indices lists an ID twice.
NoRepeats(indices) ==
    \A name \in {"category_index", "severity_index", "status_index"} :
        \A key \in DOMAIN indices[name] :
            Len(indices[name][key]) = Cardinality(Range(indices[name][key]))

\* C28: saving the same record a second time leaves the three indices, in
\* memory and in their files, exactly as the first save left them, and after
\* any sequence of save, update and update_status no bucket of any index, in
\* memory or persisted, holds the same ID more than once.
C28_IndicesIdempotentAndWithoutRepeats ==
    /\ \A d \in SaveInputs :
        LET once == save(Store, d)
            twice == save(Enter(once.w, NoFault), d)
        IN  /\ twice.ret = once.ret
            /\ twice.w.mem = once.w.mem
            /\ twice.w.idx = once.w.idx
            /\ twice.w.files = once.w.files
    /\ NoRepeats(sys["A"].storage)
    /\ NoRepeats(load_indices(idx))

\* A record saved over itself, its ID listed under two statuses (after a
\* status change) and once in each.
C28_Witness ==
    /\ last = Call("save", TRUE, TRUE, FALSE)
    /\ \E id \in GeneratedIds :
        /\ Cardinality({v \in DOMAIN sys["A"].storage.status_index :
                            Listed(sys["A"].storage.status_index, v, id)}) >= 2
        /\ Listed(load_indices(idx).status_index, Record(id).status, id)
        /\ save(Store, Record(id)).w.mem = sys["A"].storage

\* The two reports of the similarity scenario (test_9), in filing order.
ScenarioD ==
    <<[user_summary |-> "AI overwrote my document",
       user_intent |-> "Append to document",
       observed_outcome |-> "Replaced content instead of appending",
       expected_outcome |-> "Should only add new content",
       frequency |-> "intermittent"],
      [user_summary |-> "Text replacement instead of addition",
       user_intent |-> "Add paragraphs to existing file",
       observed_outcome |-> "Overwrote sections",
       expected_outcome |-> "Append without replacing",
       frequency |-> "persistent"]>>

\* C29: when the two reports of the scenario are filed one after the other
\* and get the same category, similarity is reported in at least one
\* direction: the later record's related_complaints holds the earlier ID, or
\* find_similar_complaints of the earlier record returns the later ID.
C29_ScenarioDIsClustered ==
    \A id1 \in GeneratedIds : \A id2 \in GeneratedIds \ {id1} :
        LET first == quick_file_complaint(Store, ScenarioD[1], id1, now)
            second == quick_file_complaint(Enter(first.w, NoFault), ScenarioD[2],
                                           id2, now + 1)
        IN  first.filed.primary_category = second.filed.primary_category
                => \/ id1 \in Range(second.filed.related_complaints)
                   \/ id2 \in Range(find_similar_complaints(
                                        Enter(second.w, NoFault), first.filed))

\* C29, as the code has it: the two reports of the scenario, filed one after
\* the other, get the same category (model_behavior), and similarity is
\* reported in neither direction: the later record has no keyword at all, so
\* nothing is related to it, and the earlier record's only keyword, replace,
\* is not among the later record's.
C29_ScenarioDIsNotClustered ==
    \A id1 \in GeneratedIds : \A id2 \in GeneratedIds \ {id1} :
        LET first == quick_file_complaint(Store, ScenarioD[1], id1, now)
            second == quick_file_complaint(Enter(first.w, NoFault), ScenarioD[2],
                                           id2, now + 1)
        IN  /\ first.ret /\ second.ret
            /\ first.filed.primary_category = "model_behavior"
            /\ second.filed.primary_category = "model_behavior"
            /\ KeywordsOf(first.filed) = {"replace"}
            /\ KeywordsOf(second.filed) = {}
            /\ id1 \notin Range(second.filed.related_complaints)
            /\ id2 \notin Range(find_similar_complaints(
                                    Enter(second.w, NoFault), first.filed))

\* The scenario filed on a store that holds a record already: the two
\* records are stored, listed in one category bucket and unrelated.
C29_Witness ==
    /\ last.op = "quick_file_complaint"
    /\ \E id1 \in GeneratedIds : \E id2 \in GeneratedIds \ {id1} :
        LET first == quick_file_complaint(Store, ScenarioD[1], id1, now)
            second == quick_file_complaint(Enter(first.w, NoFault), ScenarioD[2],
                                           id2, now + 1)
        IN  /\ loadable(second.w.files, id1)
            /\ loadable(second.w.files, id2)
            /\ {id1, id2} \subseteq
                    Range(second.w.mem.category_index["model_behavior"])
            /\ load(second.w.files, id2).related_complaints = <<>>
            /\ find_similar_complaints(Enter(second.w, NoFault), first.filed)
                    = <<>>

\* C30: after update_status(id, t) has answered True for a target t other
\* than the record's previous status s, the ID is in status bucket t and not
\* in status bucket s, in the in-memory status index and in the persisted
\* one, and the persisted record has status t.
C30_StatusBucketFollowsTheChange ==
    \A id \in GeneratedIds, t \in StatusInputs :
        (Stored(id) /\ Record(id).status # t)
            => LET s == Record(id).status
                   r == update_status(Store, id, t, now)
                   persisted == load_indices(r.w.idx).status_index
               IN  r.ret
                    => /\ Listed(r.w.mem.status_index, t, id)
                       /\ ~Listed(r.w.mem.status_index, s, id)
                       /\ Listed(persisted, t, id)
                       /\ ~Listed(persisted, s, id)
                       /\ load(r.w.files, id).status = t

\* update_status has just moved a record from new to triaged.
C30_Witness ==
    /\ last = Call("update_status", TRUE, TRUE, FALSE)
    /\ \E id \in GeneratedIds :
        /\ Stored(id)
        /\ Record(id).status = "triaged"
        /\ Record(id).audit_trail # <<>>
        /\ Record(id).audit_trail[Len(Record(id).audit_trail)].action
                = "Status changed: new -> triaged"
        /\ Listed(sys["A"].storage.status_index, "triaged", id)
        /\ ~Listed(sys["A"].storage.status_index, "new", id)
        /\ Listed(load_indices(idx).status_index, "triaged", id)
        /\ ~Listed(load_indices(idx).status_index, "new", id)

\* The low-tier keywords found in the text calculate_severity scans, in
\* table order, and the basis entry a found keyword is named by.
LowTierFound(d) ==
    SelectSeq(SEVERITY_INDICATORS["low"],
              LAMBDA kw : Contains(Lower(d.user_summary \o " " \o d.user_intent
                                         \o " " \o d.observed_outcome), kw))

IndicatorEntry(kw) == "Contains '" \o kw \o "' indicator"

DefaultBasis == <<"Default severity based on available information">>

\* C31, as stated: calculate_severity answers a basis list that is never
\* empty and that is the single default placeholder exactly when no scoring
\* rule fired, that is when nothing added to the score.
C31_DefaultBasisIffNoRuleFired ==
    last.op = "calculate_severity" =>
        /\ last.ret.basis # <<>>
        /\ last.ret.basis = DefaultBasis <=> SeverityScore(last.args) = 0

\* C31, as the code has it: the basis list is never empty, and it is the
\* single default placeholder exactly when no rule added an entry: nothing
\* added to the score and no low-tier keyword was found either (a low-tier
\* keyword adds no point but does add its entry).
C31_DefaultBasisIffNoEntry ==
    last.op = "calculate_severity" =>
        /\ last.ret.basis # <<>>
        /\ last.ret.basis = DefaultBasis
            <=> (SeverityScore(last.args) = 0 /\ LowTierFound(last.args) = <<>>)
        /\ SeverityScore(last.args) > 0
            => \E i \in DOMAIN last.ret.basis :
                    last.ret.basis[i] \notin
                        {IndicatorEntry(kw) : kw \in Range(SEVERITY_INDICATORS["low"])}
                        \cup Range(DefaultBasis)

\* A text with a low-tier keyword alone, nothing adding to the score, got
\* that keyword's entry and no placeholder.
C31_Witness ==
    /\ last.op = "calculate_severity"
    /\ SeverityScore(last.args) = 0
    /\ last.ret.severity = "low"
    /\ last.args.observed_outcome = "A minor glitch"
    /\ last.ret.basis = <<"Contains 'minor' indicator">>

\* C32, as stated: a low-tier keyword in the text adds nothing to the score
\* and appends no basis entry, so a text matching only low-tier keywords, no
\* other rule applying, gets severity low with the default placeholder as
\* its only basis entry.
C32_LowTierTakesNoPart ==
    last.op = "calculate_severity" =>
        /\ last.ret.severity = severity_of_score(SeverityScore(last.args))
        /\ \A kw \in Range(SEVERITY_INDICATORS["low"]) :
                IndicatorEntry(kw) \notin Range(last.ret.basis)
        /\ (SeverityScore(last.args) = 0 /\ LowTierFound(last.args) # <<>>)
                => last.ret = [severity |-> "low", basis |-> DefaultBasis]

\* C32, as the code has it: a low-tier keyword adds nothing to the score but
\* appends its basis entry like the keywords of the other tiers, so a text
\* matching only low-tier keywords, no other rule applying, gets severity
\* low with one entry for each low-tier keyword found, in table order, and
\* no placeholder.
C32_LowTierAddsEntriesOnly ==
    last.op = "calculate_severity" =>
        /\ last.ret.severity = severity_of_score(SeverityScore(last.args))
        /\ \A kw \in Range(SEVERITY_INDICATORS["low"]) :
                IndicatorEntry(kw) \in Range(last.ret.basis)
                    <=> kw \in Range(LowTierFound(last.args))
        /\ (SeverityScore(last.args) = 0 /\ LowTierFound(last.args) # <<>>)
                => last.ret =
                    [severity |-> "low",
                     basis |-> [i \in DOMAIN LowTierFound(last.args) |->
                                    IndicatorEntry(LowTierFound(last.args)[i])]]

\* Three low-tier keywords alone: severity low, three entries; and a low-tier
\* keyword beside a medium one counts for nothing in the score.
C32_Witness ==
    /\ last.op = "calculate_severity"
    /\ last.args.observed_outcome = "A small, slight glitch, occasionally"
    /\ last.args.frequency = "once"
    /\ last.args.primary_category = "other"
    /\ last.ret.severity = "low"
    /\ last.ret.basis = <<"Contains 'small' indicator",
                          "Contains 'slight' indicator",
                          "Contains 'occasionally' indicator">>

\* The root causes of which at least one pattern occurs in the text made of
\* summary, intent, observed outcome and context.
CausesFound(d) ==
    LET text == Lower(Str(d.user_summary) \o " " \o Str(d.user_intent) \o " "
                      \o Str(d.observed_outcome) \o " " \o Str(d.context))
    IN  {cause \in DOMAIN ROOT_CAUSE_PATTERNS :
            \E i \in DOMAIN ROOT_CAUSE_PATTERNS[cause] :
                Contains(text, Lower(ROOT_CAUSE_PATTERNS[cause][i]))}

\* C33: identify_root_causes never answers an empty list; it names each root
\* cause at most once, names a cause exactly when one of its patterns occurs
\* in summary, intent, observed outcome and context, and answers the
\* sentinel unknown alone exactly when no cause matched.
C33_RootCausesOrUnknown ==
    last.op = "identify_root_causes" =>
        /\ last.ret # <<>>
        /\ Len(last.ret) = Cardinality(Range(last.ret))
        /\ "unknown" \notin CausesFound(last.args)
        /\ CausesFound(last.args) # {} => Range(last.ret) = CausesFound(last.args)
        /\ CausesFound(last.args) = {} <=> last.ret = <<"unknown">>

\* A text with two patterns of one cause and patterns of two others, one of
\* them in the context only: three causes, each once.
C33_Witness ==
    /\ last.op = "identify_root_causes"
    /\ last.args.observed_outcome = "Then a crash"
    /\ last.args.context = "It failed twice"
    /\ Len(last.ret) = 3
    /\ Range(last.ret) = {"context_overload", "system_bug", "latency_issue"}

C35_ReopenOnlyFromClosed ==
    \A id \in CallerIds, reason \in Notes :
        LET r == reopen_complaint(Store, id, reason, now)
        IN  /\ r.ret => (Stored(id) /\ Record(id).status = "closed")
            /\ (Stored(id) /\ Record(id).status # "closed")
                => /\ ~r.ret
                   /\ ~r.raised
                   /\ r.w.files = files
                   /\ r.w.idx = idx
                   /\ r.w.mem = sys["A"].storage

\* reopen_complaint has just answered False for a record that is reopened.
C35_Witness ==
    /\ last = Call("reopen_complaint", TRUE, FALSE, FALSE)
    /\ \E id \in GeneratedIds : Stored(id)
    /\ \A id \in GeneratedIds : Stored(id) => Record(id).status = "reopened"

\* The changes C36 speaks of, made to the stored record `id` in the current
\* state: the update inputs together with one that names reported_at, every
\* status change, a resolution, a closing and a reopening.
ChangesTo(id) ==
    {update(Store, id, u, now)
        : u \in UpdateInputs \cup {<< <<"reported_at", "1999-01-01T00:00:00">> >>}}
    \cup {update_status(Store, id, s, now) : s \in StatusInputs}
    \cup {resolve_complaint(Store, id, n, now) : n \in Notes}
    \cup {close_complaint(Store, id, now)}
    \cup {reopen_complaint(Store, id, n, now) : n \in Notes}

\* C36: identity and creation time of a stored record are fixed: whichever of
\* update, update_status, resolve_complaint, close_complaint and
\* reopen_complaint is applied to a stored record, load still answers every
\* stored ID with the complaint_id and the reported_at it had before.
C36_IdentityAndCreationTimeStay ==
    \A id \in GeneratedIds :
        Stored(id)
            => \A r \in ChangesTo(id) : \A other \in GeneratedIds :
                Stored(other)
                    => /\ loadable(r.w.files, other)
                       /\ load(r.w.files, other).complaint_id
                            = Record(other).complaint_id
                       /\ load(r.w.files, other).reported_at
                            = Record(other).reported_at

\* The IDs an index lists, under whichever key.
IdsListed(index) == UNION {Range(index[v]) : v \in DOMAIN index}

\* C37: with two instances over one data directory, their operations
\* interleaved whole, the ID of every persisted record is listed in the
\* persisted category index, severity index and status index: no save and no
\* update_status of one instance takes out of the index files an ID the other
\* instance put there.
C37_EveryStoredIdIsInTheIndexFiles ==
    \A id \in GeneratedIds :
        Stored(id)
            => /\ id \in IdsListed(load_indices(idx).category_index)
               /\ id \in IdsListed(load_indices(idx).severity_index)
               /\ id \in IdsListed(load_indices(idx).status_index)

\* C38: suggest_routing answers safety_escalation exactly for a record of
\* category trust_safety whose severity is high; a trust_safety record of
\* critical severity is answered human_review, by the rule for critical
\* severity that comes first.
C38_SafetyEscalationIffHighTrustSafety ==
    last.op = "suggest_routing" =>
        /\ last.ret = "safety_escalation"
            <=> (last.args.primary_category = "trust_safety"
                 /\ last.args.severity = "high")
        /\ (last.args.primary_category = "trust_safety"
            /\ last.args.severity = "critical")
                => last.ret = "human_review"

\* suggest_routing was given a critical trust_safety record and answered
\* human_review.
C38_Witness ==
    /\ last.op = "suggest_routing"
    /\ last.args.primary_category = "trust_safety"
    /\ last.args.severity = "critical"
    /\ last.ret = "human_review"

\* An intake begun in the current state and answered three times: the
\* conversation after each answer, and what each continue_conversation left.
IntakeOf(message, id, answers) ==
    LET begun == start_complaint_intake(sys["A"], message, id, now)
        c1 == process_response(begun.conversation, answers[1])
        c2 == process_response(c1, answers[2])
        c3 == process_response(c2, answers[3])
        r1 == continue_conversation(Store, begun, answers[1], now)
        r2 == continue_conversation(Enter(r1.w, NoFault), r1.sys, answers[2], now)
        r3 == continue_conversation(Enter(r2.w, NoFault), r2.sys, answers[3], now)
    IN  [begun |-> begun, convs |-> <<c1, c2, c3>>, calls |-> <<r1, r2, r3>>]

\* C39: an intake ends.  In every state the round counter is at most
\* MAX_CLARIFICATION_ROUNDS, and an instance in complaint_intake mode has an
\* active conversation that still misses the fields after the rounds counted.
\* After start_complaint_intake, whatever the three answers, empty ones
\* included, the first two continue_conversation calls leave the intake open
\* and the third completes it and sets mode to normal; the answers fill
\* user_intent, observed_outcome and expected_outcome in that order, the
\* rounds counted are 1, 2 and 3, and no field is given the placeholder of
\* the partial-data finalization.
C39_ThreeAnswersCompleteTheIntake ==
    /\ sys["A"].conversation.current_round <= MAX_CLARIFICATION_ROUNDS
    /\ sys["A"].mode = "complaint_intake"
        => /\ sys["A"].conversation.conversation_state = "active"
           /\ sys["A"].conversation.missing_fields
                = SubSeq(INTAKE_FIELDS,
                         sys["A"].conversation.current_round + 1,
                         Len(INTAKE_FIELDS))
    /\ \A message \in IntakeMessages, id \in GeneratedIds,
          a1 \in IntakeAnswers, a2 \in IntakeAnswers, a3 \in IntakeAnswers :
        LET i == IntakeOf(message, id, <<a1, a2, a3>>)
        IN  /\ i.begun.mode = "complaint_intake"
            /\ i.begun.conversation.missing_fields = INTAKE_FIELDS
            /\ \A k \in 1..3 :
                /\ i.convs[k].current_round = k
                /\ k <= MAX_CLARIFICATION_ROUNDS
                /\ i.convs[k].conversation_state
                    = IF k = 3 THEN "complete" ELSE "active"
                /\ i.calls[k].filed = (k = 3)
                /\ i.calls[k].sys.mode
                    = IF k = 3 THEN "normal" ELSE "complaint_intake"
            /\ i.convs[3].complaint_data.user_intent
                = sanitize_text(a1, SANITIZE_MAX_LENGTH)
            /\ i.convs[3].complaint_data.observed_outcome
                = sanitize_text(a2, SANITIZE_MAX_LENGTH)
            /\ i.convs[3].complaint_data.expected_outcome
                = sanitize_text(a3, SANITIZE_MAX_LENGTH)
            /\ \A f \in Range(INTAKE_FIELDS) :
                i.convs[3].complaint_data[f] # "Not provided"

\* The third answer of an intake has just completed it: the record filed
\* begins its trail with the intake and mode is normal again.
C39_Witness ==
    /\ last = Call("continue_conversation", FALSE, TRUE, FALSE)
    /\ sys["A"].mode = "normal"
    /\ \E id \in GeneratedIds :
        /\ Stored(id)
        /\ Record(id).audit_trail[1].action = "Complaint intake initiated"
        /\ Record(id).user_intent = "Export the report as PDF"
        /\ Record(id).expected_outcome = "Export the report as PDF"

====
